---- MODULE Spec2Model ----
(***************************************************************************)
(* SailPoint IdentityNow "revoke access" action: the invoke, error and halt *)
(* handlers of src/script.mjs with the helpers they import from            *)
(* @sgnl-actions/utils (bundled in dist/index.js): getBaseURL,             *)
(* getAuthorizationHeader, getClientCredentialsToken and                   *)
(* resolveJSONPathTemplates; and the earlier build of the action that      *)
(* takes a sailpointDomain and whose error handler retries.                *)
(*                                                                         *)
(* Specifications.  Spec: one call of invoke of src/script.mjs.            *)
(* HandlersSpec: one call of its error or halt handler.  RetrySpec: one    *)
(* call of invoke of the sailpointDomain build followed, when it throws,   *)
(* by its error handler.  TemplateSpec: one call of                        *)
(* resolveJSONPathTemplates.                                               *)
(*                                                                         *)
(* Text.  A JavaScript string is a sequence of atoms.  An atom is an       *)
(* indivisible chunk of text; each of the characters  { } $ . [ ] ' " / \  *)
(* that the code's regular expressions and string tests look at is an atom *)
(* and each decimal digit is an atom of its own, and no other atom         *)
(* contains one of them except where a definition says so.  The empty      *)
(* string is the empty sequence.                                           *)
(*                                                                         *)
(* Values.  A JavaScript value is a record tagged by its type:             *)
(* undefined, null, string (s), number (n), object (o: key -> value) and   *)
(* array (a: sequence of values).                                          *)
(***************************************************************************)
EXTENDS Naturals, Sequences, FiniteSets, TLC

VARIABLES
    params,          \* the params object the harness passes to invoke
    context,         \* the context object: environment, secrets, data
    pc,              \* where the invocation stands: start, awaitToken, awaitPost, done
    resolvedParams,  \* invoke's local resolvedParams (script.mjs:102)
    templateErrors,  \* invoke's local errors (script.mjs:102)
    baseUrl,         \* invoke's local baseUrl (script.mjs:117)
    authHeader,      \* invoke's local authHeader (script.mjs:120)
    requests,        \* every fetch() call issued so far, in order
    responses,       \* what each of them was answered with, in the same order
    options,         \* the options resolveJSONPathTemplates is called with
    timers,          \* every setTimeout sleep so far: its delay and the number of
                     \* fetch calls issued before it
    outcome          \* what the handler returned or threw

vars == <<params, context, pc, resolvedParams, templateErrors, baseUrl,
          authHeader, requests, responses, options, timers, outcome>>

---------------------------------------------------------------------------
(* JavaScript values *)

Undefined == [t |-> "undefined"]

Null == [t |-> "null"]

Str(s) == [t |-> "string", s |-> s]

Num(n) == [t |-> "number", n |-> n]

Obj(f) == [t |-> "object", o |-> f]

Arr(a) == [t |-> "array", a |-> a]

\* JavaScript truthiness: undefined, null, '' and 0 are falsy.
Truthy(v) ==
    CASE v.t = "undefined" -> FALSE
      [] v.t = "null" -> FALSE
      [] v.t = "string" -> v.s # <<>>
      [] v.t = "number" -> v.n # 0
      [] OTHER -> TRUE

\* a || b
OrElse(a, b) == IF Truthy(a) THEN a ELSE b

\* obj[key] for a key the model spells as one name; a missing property is undefined.
Prop(obj, key) ==
    IF obj.t = "object" /\ key \in DOMAIN obj.o THEN obj.o[key] ELSE Undefined

\* String.prototype.startsWith
StartsWith(s, p) == Len(s) >= Len(p) /\ SubSeq(s, 1, Len(p)) = p

\* String.prototype.endsWith
EndsWith(s, p) == Len(s) >= Len(p) /\ SubSeq(s, Len(s) - Len(p) + 1, Len(s)) = p

\* String.prototype.includes: part occurs in s as a run of consecutive atoms
Includes(s, part) ==
    \E i \in 1..(Len(s) + 1) :
        i + Len(part) - 1 <= Len(s) /\ SubSeq(s, i, i + Len(part) - 1) = part

\* Buffer.from(s).toString('base64') / btoa(s): an encoding of s, never s itself.
Base64(s) == <<"base64(">> \o s \o <<")">>

---------------------------------------------------------------------------
(* Template utilities (@sgnl-actions/utils, bundled) *)

Digits == {"0", "1", "2", "3", "4", "5", "6", "7", "8", "9"}

DigitOf(d) ==
    CASE d = 0 -> "0" [] d = 1 -> "1" [] d = 2 -> "2" [] d = 3 -> "3" [] d = 4 -> "4"
      [] d = 5 -> "5" [] d = 6 -> "6" [] d = 7 -> "7" [] d = 8 -> "8" [] OTHER -> "9"

ValueOfDigit(c) == CHOOSE d \in 0..9 : DigitOf(d) = c

RECURSIVE NumToStr(_)
\* String(n) for a natural number n
NumToStr(n) ==
    IF n < 10 THEN <<DigitOf(n)>> ELSE NumToStr(n \div 10) \o <<DigitOf(n % 10)>>

RECURSIVE StrToNum(_)
\* the number a run of digits spells
StrToNum(s) ==
    IF s = <<>> THEN 0 ELSE 10 * StrToNum(SubSeq(s, 1, Len(s) - 1)) + ValueOfDigit(s[Len(s)])

\* a canonical array index: digits, without a leading zero unless it is "0"
IsIndex(seg) ==
    /\ seg # <<>>
    /\ \A i \in 1..Len(seg) : seg[i] \in Digits
    /\ (Len(seg) > 1 => seg[1] # "0")

\* the first position >= i of s holding atom c, or 0
FirstAt(s, c, i) ==
    IF \E j \in i..Len(s) : s[j] = c
    THEN CHOOSE j \in i..Len(s) : s[j] = c /\ \A k \in i..(j - 1) : s[k] # c
    ELSE 0

\* the last position of the run of digits of s that starts at i (i - 1 when there is none)
DigitRunEnd(s, i) ==
    CHOOSE j \in (i - 1)..Len(s) :
        /\ \A k \in i..j : s[k] \in Digits
        /\ (j < Len(s) => s[j + 1] \notin Digits)

RECURSIVE IndexToDot(_)
\* path.replace(/\[(\d+)\]/g, '.$1')
IndexToDot(s) ==
    IF s = <<>> THEN <<>>
    ELSE LET e == DigitRunEnd(s, 2)
         IN  IF s[1] = "[" /\ e >= 2 /\ e < Len(s) /\ s[e + 1] = "]"
             THEN <<".">> \o SubSeq(s, 2, e) \o IndexToDot(SubSeq(s, e + 2, Len(s)))
             ELSE <<s[1]>> \o IndexToDot(Tail(s))

RECURSIVE QuotedToDot(_, _)
\* path.replace(/\['([^']+)'\]/g, '.$1') with q the quote, ' or "
QuotedToDot(s, q) ==
    IF s = <<>> THEN <<>>
    ELSE LET j == FirstAt(s, q, 3)
         IN  IF /\ s[1] = "[" /\ Len(s) >= 2 /\ s[2] = q
                /\ j >= 4 /\ j < Len(s) /\ s[j + 1] = "]"
             THEN <<".">> \o SubSeq(s, 3, j - 1) \o QuotedToDot(SubSeq(s, j + 2, Len(s)), q)
             ELSE <<s[1]>> \o QuotedToDot(Tail(s), q)

RECURSIVE SplitDots(_)
\* s.split('.').filter(Boolean): the non-empty pieces between the dots
SplitDots(s) ==
    IF s = <<>> THEN <<>>
    ELSE LET d == FirstAt(s, ".", 1)
         IN  IF d = 0 THEN <<s>>
             ELSE (IF d = 1 THEN <<>> ELSE <<SubSeq(s, 1, d - 1)>>)
                  \o SplitDots(SubSeq(s, d + 1, Len(s)))

\* a function object: what the inherited property constructor holds
Func(name) == [t |-> "function", name |-> name]

\* the TypeError a property read throws instead of giving a value
Raised == [t |-> "raised"]

\* current[segment]: own properties of objects, elements and length of arrays; of
\* the inherited ones, constructor, and on a function the accessors caller and
\* arguments of Function.prototype, which throw a TypeError.
\* Values reached through a string or a number leaf are not modelled (undefined).
Member(current, segment) ==
    CASE current.t = "object" ->
             IF segment \in DOMAIN current.o THEN current.o[segment]
             ELSE IF segment = <<"constructor">> THEN Func("Object")
             ELSE Undefined
      [] current.t = "array" ->
             IF segment = <<"length">> THEN Num(Len(current.a))
             ELSE IF IsIndex(segment) /\ StrToNum(segment) < Len(current.a)
                  THEN current.a[StrToNum(segment) + 1]
             ELSE IF segment = <<"constructor">> THEN Func("Array")
             ELSE Undefined
      [] current.t = "function" ->
             IF segment \in {<<"caller">>, <<"arguments">>} THEN Raised
             ELSE IF segment = <<"constructor">> THEN Func("Function")
             ELSE IF segment = <<"name">> THEN Str(<<current.name>>)
             ELSE Undefined
      [] OTHER -> Undefined

RECURSIVE Traverse(_, _)
\* the loop of get(): stop at undefined or null, else descend; a read that throws
\* leaves the loop
Traverse(current, segments) ==
    IF current.t = "raised" THEN Raised
    ELSE IF segments = <<>> THEN current
    ELSE IF current.t \in {"undefined", "null"} THEN Undefined
    ELSE Traverse(Member(current, Head(segments)), Tail(segments))

\* get(obj, path)
get(obj, path) ==
    IF path = <<>> \/ obj.t \in {"undefined", "null"} THEN Undefined
    ELSE Traverse(obj, SplitDots(QuotedToDot(QuotedToDot(IndexToDot(path), "'"), "\"")))

\* extractJSONPathValue without its catch: what get threw is taken for a value
extractJSONPathValueUncaught(json, jsonPath) ==
    LET path == IF StartsWith(jsonPath, <<"$", ".">>) THEN SubSeq(jsonPath, 3, Len(jsonPath))
                ELSE IF StartsWith(jsonPath, <<"$">>) THEN Tail(jsonPath)
                ELSE jsonPath
        results == get(json, path)
    IN  IF path = <<>> THEN [value |-> json, found |-> TRUE]
        ELSE IF results.t \in {"undefined", "null"} THEN [value |-> Null, found |-> FALSE]
        ELSE [value |-> results, found |-> TRUE]

\* extractJSONPathValue(json, jsonPath): [value, found]; the catch answers a throw
\* inside get with not found
extractJSONPathValue(json, jsonPath) ==
    LET path == IF StartsWith(jsonPath, <<"$", ".">>) THEN SubSeq(jsonPath, 3, Len(jsonPath))
                ELSE IF StartsWith(jsonPath, <<"$">>) THEN Tail(jsonPath)
                ELSE jsonPath
        results == get(json, path)
    IN  IF path = <<>> THEN [value |-> json, found |-> TRUE]
        ELSE IF results.t = "raised" THEN [value |-> Null, found |-> FALSE]
        ELSE IF results.t \in {"undefined", "null"} THEN [value |-> Null, found |-> FALSE]
        ELSE [value |-> results, found |-> TRUE]

RECURSIVE KeyOrder(_)
\* an enumeration of the keys of an object.  JSON.stringify and Object.entries follow
\* insertion order, which the model does not record: one fixed order stands for it.
KeyOrder(S) ==
    IF S = {} THEN <<>>
    ELSE LET k == CHOOSE x \in S : TRUE IN <<k>> \o KeyOrder(S \ {k})

RECURSIVE EscapeJSON(_)
\* the escapes JSON.stringify writes inside a string: \" and \\
EscapeJSON(s) ==
    IF s = <<>> THEN <<>>
    ELSE (IF Head(s) \in {"\"", "\\"} THEN <<"\\", Head(s)>> ELSE <<Head(s)>>)
         \o EscapeJSON(Tail(s))

RECURSIVE JoinComma(_)
JoinComma(parts) ==
    IF parts = <<>> THEN <<>>
    ELSE IF Len(parts) = 1 THEN parts[1]
    ELSE parts[1] \o <<",">> \o JoinComma(Tail(parts))

RECURSIVE JSONstringify(_)
\* JSON.stringify(value) of a defined value: properties holding undefined are left
\* out, array elements holding undefined are written null.
JSONstringify(v) ==
    CASE v.t = "string" -> <<"\"">> \o EscapeJSON(v.s) \o <<"\"">>
      [] v.t = "number" -> NumToStr(v.n)
      [] v.t = "array" ->
             <<"[">> \o JoinComma([i \in 1..Len(v.a) |->
                          IF v.a[i].t = "undefined" THEN <<"null">> ELSE JSONstringify(v.a[i])])
             \o <<"]">>
      [] v.t = "object" ->
             LET keys == KeyOrder({k \in DOMAIN v.o : v.o[k].t # "undefined"})
             IN  <<"{">> \o JoinComma([i \in 1..Len(keys) |->
                          <<"\"">> \o EscapeJSON(keys[i]) \o <<"\"", ":">>
                          \o JSONstringify(v.o[keys[i]])])
                 \o <<"}">>
      [] OTHER -> <<"null">>

\* valueToString(value).  For a function JSON.stringify gives undefined, which is not
\* '' and which String.prototype.replace writes as the text undefined.
valueToString(value) ==
    CASE value.t \in {"undefined", "null"} -> <<>>
      [] value.t = "string" -> value.s
      [] value.t = "function" -> <<"undefined">>
      [] OTHER -> JSONstringify(value)

NO_VALUE_PLACEHOLDER == <<"{", "No Value", "}">>

\* EXACT_TEMPLATE_PATTERN.test(s): /^\{(\$[^}]+)\}$/
isExactTemplate(s) ==
    /\ Len(s) >= 4
    /\ s[1] = "{"
    /\ s[2] = "$"
    /\ FirstAt(s, "}", 3) = Len(s)

\* the callback handling a value whose string form is empty as a value not found
ResolveTokenEmptyAsMissing(jsonPath, jobContext, blankWhenMissing) ==
    LET ex == extractJSONPathValue(jobContext, jsonPath)
        strValue == valueToString(ex.value)
    IN  IF ~ex.found \/ strValue = <<>>
        THEN [text |-> IF blankWhenMissing THEN <<>> ELSE NO_VALUE_PLACEHOLDER,
              errors |-> << <<"failed to extract field ", "'">> \o jsonPath
                             \o <<"'", ": field not found">> >>]
        ELSE [text |-> strValue, errors |-> <<>>]

\* the callback of templateString.replace: the text put in place of one token and the
\* errors it records
ResolveToken(jsonPath, jobContext, blankWhenMissing) ==
    LET ex == extractJSONPathValue(jobContext, jsonPath)
        strValue == valueToString(ex.value)
    IN  IF ~ex.found
        THEN [text |-> IF blankWhenMissing THEN <<>> ELSE NO_VALUE_PLACEHOLDER,
              errors |-> << <<"failed to extract field ", "'">> \o jsonPath
                             \o <<"'", ": field not found">> >>]
        ELSE IF strValue = <<>>
        THEN [text |-> <<>>,
              errors |-> << <<"failed to extract field ", "'">> \o jsonPath
                             \o <<"'", ": field is empty">> >>]
        ELSE [text |-> strValue, errors |-> <<>>]

RECURSIVE ReplaceTemplates(_, _, _)
\* templateString.replace(TEMPLATE_PATTERN, callback) with /\{(\$[^}]+)\}/g, left to right
ReplaceTemplates(s, jobContext, blankWhenMissing) ==
    IF s = <<>> THEN [result |-> <<>>, errors |-> <<>>]
    ELSE LET j == FirstAt(s, "}", 3)
         IN  IF s[1] = "{" /\ Len(s) >= 2 /\ s[2] = "$" /\ j >= 4
             THEN LET one == ResolveToken(SubSeq(s, 2, j - 1), jobContext, blankWhenMissing)
                      rest == ReplaceTemplates(SubSeq(s, j + 1, Len(s)), jobContext,
                                               blankWhenMissing)
                  IN  [result |-> one.text \o rest.result,
                       errors |-> one.errors \o rest.errors]
             ELSE LET rest == ReplaceTemplates(Tail(s), jobContext, blankWhenMissing)
                  IN  [result |-> <<s[1]>> \o rest.result, errors |-> rest.errors]

\* resolveTemplateString(templateString, jobContext, {omitNoValueForExactTemplates})
resolveTemplateString(templateString, jobContext, omitNoValueForExactTemplates) ==
    ReplaceTemplates(templateString, jobContext,
                     isExactTemplate(templateString) /\ omitNoValueForExactTemplates)

\* A Date: sec is the atom "YYYY-MM-DDTHH:MM:SS", ms its three millisecond digits.
toISOString(date) == <<date.sec, ".">> \o date.ms \o <<"Z">>

\* s.replace(/\.\d{3}Z$/, 'Z')
StripMillis(s) ==
    LET n == Len(s)
    IN  IF /\ n >= 5
           /\ s[n] = "Z"
           /\ \A k \in (n - 3)..(n - 1) : s[k] \in Digits
           /\ s[n - 4] = "."
        THEN SubSeq(s, 1, n - 5) \o <<"Z">>
        ELSE s

\* formatRFC3339(date)
formatRFC3339(date) == StripMillis(toISOString(date))

EmptyObject == [k \in {} |-> Undefined]

\* {...a, ...b}: b's properties over a's
Spread(a, b) ==
    [k \in (DOMAIN a) \cup (DOMAIN b) |-> IF k \in DOMAIN b THEN b[k] ELSE a[k]]

\* the own enumerable properties an object spread copies (none for undefined, null
\* and numbers; strings and arrays are not spread by the inputs of this model)
OwnProps(v) == IF v.t = "object" THEN v.o ELSE EmptyObject

\* injectSGNLNamespace(jobContext) with now = new Date() and uuid = crypto.randomUUID()
\* the injection with the fresh values written over those of the job context
injectSGNLNamespaceFreshLast(jobContext, now, uuid) ==
    LET sgnl == Member(jobContext, <<"sgnl">>)
        time == Member(sgnl, <<"time">>)
        random == Member(sgnl, <<"random">>)
        One(k, v) == [x \in {k} |-> v]
    IN  Obj(Spread(OwnProps(jobContext),
            One(<<"sgnl">>,
                Obj(Spread(OwnProps(sgnl),
                    Spread(One(<<"time">>,
                               Obj(Spread(OwnProps(time),
                                          One(<<"now">>, Str(formatRFC3339(now)))))),
                           One(<<"random">>,
                               Obj(Spread(OwnProps(random),
                                          One(<<"uuid">>, Str(uuid)))))))))))

injectSGNLNamespace(jobContext, now, uuid) ==
    LET sgnl == Member(jobContext, <<"sgnl">>)
        time == Member(sgnl, <<"time">>)
        random == Member(sgnl, <<"random">>)
        One(k, v) == [x \in {k} |-> v]
    IN  Obj(Spread(OwnProps(jobContext),
            One(<<"sgnl">>,
                Obj(Spread(OwnProps(sgnl),
                    Spread(One(<<"time">>,
                               Obj(Spread(One(<<"now">>, Str(formatRFC3339(now))),
                                          OwnProps(time)))),
                           One(<<"random">>,
                               Obj(Spread(One(<<"uuid">>, Str(uuid)),
                                          OwnProps(random))))))))))

RECURSIVE resolveValue(_, _, _)
\* resolveValue(value) of resolveJSONPathTemplates: [result, errors]
resolveValue(value, ctx, omit) ==
    CASE value.t = "string" ->
             LET r == resolveTemplateString(value.s, ctx, omit)
             IN  [result |-> Str(r.result), errors |-> r.errors]
      [] value.t = "array" ->
             LET each == [i \in 1..Len(value.a) |-> resolveValue(value.a[i], ctx, omit)]
                 all == [i \in 1..Len(value.a) |-> each[i].result]
                 kept == IF omit THEN SelectSeq(all, LAMBDA x : x # Str(<<>>)) ELSE all
                 FlatErrors[i \in 0..Len(value.a)] ==
                     IF i = 0 THEN <<>> ELSE FlatErrors[i - 1] \o each[i].errors
             IN  [result |-> Arr(kept), errors |-> FlatErrors[Len(value.a)]]
      [] value.t = "object" ->
             LET keys == KeyOrder(DOMAIN value.o)
                 each == [k \in DOMAIN value.o |-> resolveValue(value.o[k], ctx, omit)]
                 keep == {k \in DOMAIN value.o : ~(omit /\ each[k].result = Str(<<>>))}
                 FlatErrors[i \in 0..Len(keys)] ==
                     IF i = 0 THEN <<>> ELSE FlatErrors[i - 1] \o each[keys[i]].errors
             IN  [result |-> Obj([k \in keep |-> each[k].result]),
                  errors |-> FlatErrors[Len(keys)]]
      [] OTHER -> [result |-> value, errors |-> <<>>]

---------------------------------------------------------------------------
(* Outcomes of a synchronous stretch of code *)

\* throw new <name>(message), with the statusCode attribute the code sets (or none)
Thrown(name, message, statusCode) ==
    [kind |-> "error", name |-> name, message |-> message, statusCode |-> statusCode]

NoOutcome == [kind |-> "none"]

\* `${value}` inside a template literal
TemplateLiteral(value) ==
    CASE value.t = "string" -> value.s
      [] value.t = "number" -> NumToStr(value.n)
      [] value.t = "undefined" -> <<"undefined">>
      [] value.t = "null" -> <<"null">>
      [] value.t = "array" -> <<"[array]">>
      [] OTHER -> <<"[", "object Object", "]">>

\* a property of the params, environment or secrets object
P(obj, name) == Member(obj, <<name>>)

---------------------------------------------------------------------------
(* Authentication utilities (@sgnl-actions/utils, bundled) *)

RECURSIVE FormEncode(_)
\* URLSearchParams.toString(): k=v pairs joined by & (atoms are not percent-encoded)
FormEncode(pairs) ==
    IF pairs = <<>> THEN <<>>
    ELSE pairs[1][1] \o <<"=">> \o pairs[1][2]
         \o (IF Len(pairs) = 1 THEN <<>> ELSE <<"&">> \o FormEncode(Tail(pairs)))

FormHeaders ==
    ("Content-Type" :> <<"application", "/", "x-www-form-urlencoded">>)
    @@ ("Accept" :> <<"application", "/", "json">>)

MsgTokenConfig ==
    <<"OAuth2 Client Credentials flow requires tokenUrl, clientId, and clientSecret">>

MsgTokenEnv == <<"OAuth2 Client Credentials flow requires TOKEN_URL and CLIENT_ID in env">>

MsgTokenFailed == <<"OAuth2 token request failed: ">>

MsgNoAccessToken == <<"No access_token in OAuth2 response">>

MsgNoAuth ==
    <<"No authentication configured", ".", " Provide one of: BEARER_AUTH_TOKEN, BASIC_USERNAME",
      "/", "BASIC_PASSWORD, OAUTH2_AUTHORIZATION_CODE_ACCESS_TOKEN, or OAUTH2_CLIENT_CREDENTIALS_*">>

\* getClientCredentialsToken(config) up to its fetch: the error thrown, or the request
\* sent to the token endpoint
getClientCredentialsToken(config) ==
    IF ~Truthy(config.tokenUrl) \/ ~Truthy(config.clientId) \/ ~Truthy(config.clientSecret)
    THEN [kind |-> "throw", error |-> Thrown("Error", MsgTokenConfig, Undefined)]
    ELSE LET inParams == config.authStyle = Str(<<"InParams">>)
             pairs == << <<<<"grant_type">>, <<"client_credentials">>>> >>
                      \o (IF Truthy(config.scope)
                          THEN << <<<<"scope">>, TemplateLiteral(config.scope)>> >> ELSE <<>>)
                      \o (IF Truthy(config.audience)
                          THEN << <<<<"audience">>, TemplateLiteral(config.audience)>> >>
                          ELSE <<>>)
                      \o (IF inParams
                          THEN << <<<<"client_id">>, TemplateLiteral(config.clientId)>>,
                                  <<<<"client_secret">>, TemplateLiteral(config.clientSecret)>> >>
                          ELSE <<>>)
             headers == IF inParams THEN FormHeaders
                        ELSE ("Authorization" :>
                                 <<"Basic ">> \o Base64(TemplateLiteral(config.clientId) \o <<":">>
                                                       \o TemplateLiteral(config.clientSecret)))
                             @@ FormHeaders
         IN  [kind |-> "fetch",
              request |-> [site |-> "getClientCredentialsToken",
                           url |-> TemplateLiteral(config.tokenUrl),
                           method |-> "POST",
                           headers |-> headers,
                           body |-> Str(FormEncode(pairs))]]

\* response.json(): the parsed body, or a SyntaxError when the body is not JSON
BodyIsJSON(response) == response.body.json

\* the token taken from an ok response without checking that it is there
TokenFromResponseUnchecked(response) ==
    IF ~response.ok /\ ~BodyIsJSON(response) /\ ~response.body.rereadable
    THEN [kind |-> "throw", error |-> Thrown("TypeError", <<"Body is unusable">>, Undefined)]
    ELSE IF ~response.ok
    THEN [kind |-> "throw",
          error |-> Thrown("Error",
                           MsgTokenFailed \o NumToStr(response.status) \o <<" ">>
                           \o response.statusText \o <<" - ">>
                           \o (IF BodyIsJSON(response) THEN JSONstringify(response.body.value)
                                ELSE response.body.text),
                           Undefined)]
    ELSE IF ~BodyIsJSON(response)
    THEN [kind |-> "throw", error |-> Thrown("SyntaxError", <<"Unexpected token">>, Undefined)]
    ELSE [kind |-> "return", value |-> P(response.body.value, "access_token")]

\* getClientCredentialsToken(config) from the token endpoint's response on: the token
\* returned, or the error thrown
TokenFromResponse(response) ==
    IF ~response.ok /\ ~BodyIsJSON(response) /\ ~response.body.rereadable
    THEN \* response.text() in the catch, on a body response.json() has consumed
         [kind |-> "throw", error |-> Thrown("TypeError", <<"Body is unusable">>, Undefined)]
    ELSE IF ~response.ok
    THEN LET errorText == IF BodyIsJSON(response) THEN JSONstringify(response.body.value)
                          ELSE response.body.text
         IN  [kind |-> "throw",
              error |-> Thrown("Error",
                               MsgTokenFailed \o NumToStr(response.status) \o <<" ">>
                               \o response.statusText \o <<" - ">> \o errorText,
                               Undefined)]
    ELSE IF ~BodyIsJSON(response)
    THEN [kind |-> "throw", error |-> Thrown("SyntaxError", <<"Unexpected token">>, Undefined)]
    ELSE IF response.body.value.t \in {"undefined", "null"}
    THEN [kind |-> "throw",
          error |-> Thrown("TypeError", <<"Cannot read properties of null">>, Undefined)]
    ELSE IF ~Truthy(P(response.body.value, "access_token"))
    THEN [kind |-> "throw", error |-> Thrown("Error", MsgNoAccessToken, Undefined)]
    ELSE [kind |-> "return", value |-> P(response.body.value, "access_token")]

\* token.startsWith('Bearer ') ? token : `Bearer ${token}`
WithBearerPrefix(token) ==
    IF StartsWith(token, <<"Bearer ">>) THEN token ELSE <<"Bearer ">> \o token

\* Basic auth selected by a username or a password alone (|| for &&)
AuthMethodBasicEither(secrets) ==
    IF Truthy(P(secrets, "BEARER_AUTH_TOKEN")) THEN 1
    ELSE IF Truthy(P(secrets, "BASIC_PASSWORD")) \/ Truthy(P(secrets, "BASIC_USERNAME")) THEN 2
    ELSE IF Truthy(P(secrets, "OAUTH2_AUTHORIZATION_CODE_ACCESS_TOKEN")) THEN 3
    ELSE IF Truthy(P(secrets, "OAUTH2_CLIENT_CREDENTIALS_CLIENT_SECRET")) THEN 4
    ELSE 0

\* Basic auth probed before the bearer token
AuthMethodBasicFirst(secrets) ==
    IF Truthy(P(secrets, "BASIC_PASSWORD")) /\ Truthy(P(secrets, "BASIC_USERNAME")) THEN 2
    ELSE IF Truthy(P(secrets, "BEARER_AUTH_TOKEN")) THEN 1
    ELSE IF Truthy(P(secrets, "OAUTH2_AUTHORIZATION_CODE_ACCESS_TOKEN")) THEN 3
    ELSE IF Truthy(P(secrets, "OAUTH2_CLIENT_CREDENTIALS_CLIENT_SECRET")) THEN 4
    ELSE 0

\* client credentials probed before the pre-obtained access token
AuthMethodClientFirst(secrets) ==
    IF Truthy(P(secrets, "BEARER_AUTH_TOKEN")) THEN 1
    ELSE IF Truthy(P(secrets, "BASIC_PASSWORD")) /\ Truthy(P(secrets, "BASIC_USERNAME")) THEN 2
    ELSE IF Truthy(P(secrets, "OAUTH2_CLIENT_CREDENTIALS_CLIENT_SECRET")) THEN 4
    ELSE IF Truthy(P(secrets, "OAUTH2_AUTHORIZATION_CODE_ACCESS_TOKEN")) THEN 3
    ELSE 0

\* the branch of getAuthorizationHeader the secrets select: method 1 to 4, or 0
AuthMethod(secrets) ==
    IF Truthy(P(secrets, "BEARER_AUTH_TOKEN")) THEN 1
    ELSE IF Truthy(P(secrets, "BASIC_PASSWORD")) /\ Truthy(P(secrets, "BASIC_USERNAME")) THEN 2
    ELSE IF Truthy(P(secrets, "OAUTH2_AUTHORIZATION_CODE_ACCESS_TOKEN")) THEN 3
    ELSE IF Truthy(P(secrets, "OAUTH2_CLIENT_CREDENTIALS_CLIENT_SECRET")) THEN 4
    ELSE 0

\* context.environment || {} and context.secrets || {}
EnvOf(ctx) == OrElse(P(ctx, "environment"), Obj(EmptyObject))

SecretsOf(ctx) == OrElse(P(ctx, "secrets"), Obj(EmptyObject))

\* getAuthorizationHeader(context) up to its first await: the header returned, the
\* error thrown, or the token request it waits on
getAuthorizationHeader(ctx) ==
    LET env == EnvOf(ctx)
        secrets == SecretsOf(ctx)
        method == AuthMethod(secrets)
    IN  CASE method = 1 ->
                 [kind |-> "return",
                  value |-> WithBearerPrefix(P(secrets, "BEARER_AUTH_TOKEN").s)]
          [] method = 2 ->
                 [kind |-> "return",
                  value |-> <<"Basic ">> \o Base64(TemplateLiteral(P(secrets, "BASIC_USERNAME"))
                                \o <<":">> \o TemplateLiteral(P(secrets, "BASIC_PASSWORD")))]
          [] method = 3 ->
                 [kind |-> "return",
                  value |-> WithBearerPrefix(P(secrets, "OAUTH2_AUTHORIZATION_CODE_ACCESS_TOKEN").s)]
          [] method = 4 ->
                 IF \/ ~Truthy(P(env, "OAUTH2_CLIENT_CREDENTIALS_TOKEN_URL"))
                    \/ ~Truthy(P(env, "OAUTH2_CLIENT_CREDENTIALS_CLIENT_ID"))
                 THEN [kind |-> "throw", error |-> Thrown("Error", MsgTokenEnv, Undefined)]
                 ELSE getClientCredentialsToken(
                          [tokenUrl |-> P(env, "OAUTH2_CLIENT_CREDENTIALS_TOKEN_URL"),
                           clientId |-> P(env, "OAUTH2_CLIENT_CREDENTIALS_CLIENT_ID"),
                           clientSecret |-> P(secrets, "OAUTH2_CLIENT_CREDENTIALS_CLIENT_SECRET"),
                           scope |-> P(env, "OAUTH2_CLIENT_CREDENTIALS_SCOPE"),
                           audience |-> P(env, "OAUTH2_CLIENT_CREDENTIALS_AUDIENCE"),
                           authStyle |-> P(env, "OAUTH2_CLIENT_CREDENTIALS_AUTH_STYLE")])
          [] OTHER -> [kind |-> "throw", error |-> Thrown("Error", MsgNoAuth, Undefined)]

\* getAuthorizationHeader(context) from the token endpoint's response on
AuthorizationFromToken(response) ==
    LET tok == TokenFromResponse(response)
    IN  IF tok.kind = "throw" THEN tok
        ELSE [kind |-> "return", value |-> <<"Bearer ">> \o TemplateLiteral(tok.value)]

MsgNoURL ==
    <<"No URL specified", ".", " Provide address parameter or ADDRESS environment variable">>

\* getBaseURL falling back to a default host instead of throwing
getBaseURLWithDefault(prm, ctx) ==
    LET address == OrElse(OrElse(P(prm, "address"), P(EnvOf(ctx), "ADDRESS")),
                          Str(<<"https:", "/", "/", "localhost">>))
    IN  [kind |-> "return",
         value |-> IF EndsWith(address.s, <<"/">>)
                   THEN SubSeq(address.s, 1, Len(address.s) - 1)
                   ELSE address.s]

\* getBaseURL(params, context)
getBaseURL(prm, ctx) ==
    LET address == OrElse(P(prm, "address"), P(EnvOf(ctx), "ADDRESS"))
    IN  IF ~Truthy(address)
        THEN [kind |-> "throw", error |-> Thrown("Error", MsgNoURL, Undefined)]
        ELSE [kind |-> "return",
              value |-> IF EndsWith(address.s, <<"/">>)
                        THEN SubSeq(address.s, 1, Len(address.s) - 1)
                        ELSE address.s]

---------------------------------------------------------------------------
(* src/script.mjs *)

AccessRequestsPath == <<"/", "v", "3", "/", "access-requests">>

\* whether new URL(path, base) accepts base: scheme://host..., the forms of absolute
\* URL the model's inputs use; any other base makes the constructor throw a TypeError
IsAbsoluteURL(base) ==
    /\ Len(base) >= 4
    /\ base[1] \in {"https:", "http:"}
    /\ base[2] = "/"
    /\ base[3] = "/"
    /\ base[4] # "/"

\* new URL('/v3/access-requests', baseUrl).toString(): an absolute path replaces the
\* whole path of the base
AccessRequestsURL(base) ==
    LET slash == FirstAt(base, "/", 4)
        origin == IF slash = 0 THEN base ELSE SubSeq(base, 1, slash - 1)
    IN  origin \o AccessRequestsPath

\* The dates Date.parse reads, with the Date each denotes; anything else is NaN.
KnownDates ==
    (<<"2", "0", "2", "6", "-01-01">> :> [sec |-> "2026-01-01T00:00:00", ms |-> <<"0", "0", "0">>])

\* the document JSON.stringify writes for value, as JSON.parse reads it back:
\* properties holding undefined are gone, array elements holding undefined are null
RECURSIVE JSONdocument(_)
JSONdocument(v) ==
    CASE v.t = "array" ->
             Arr([i \in 1..Len(v.a) |->
                     IF v.a[i].t = "undefined" THEN Null ELSE JSONdocument(v.a[i])])
      [] v.t = "object" ->
             Obj([k \in {x \in DOMAIN v.o : v.o[x].t # "undefined"} |-> JSONdocument(v.o[k])])
      [] OTHER -> v

JSONHeaders(authToken) ==
    ("Authorization" :> authToken)
    @@ ("Accept" :> <<"application", "/", "json">>)
    @@ ("Content-Type" :> <<"application", "/", "json">>)

MsgCommentRequired == <<"itemComment is required for REVOKE_ACCESS requests">>

\* revokeAccess(params, baseUrl, authToken) up to its fetch: the error thrown, or the
\* POST sent
revokeAccess(prm, base, authToken) ==
    LET itemComment == P(prm, "itemComment")
        itemRemoveDate == P(prm, "itemRemoveDate")
        item == (<<"type">> :> P(prm, "itemType")) @@ (<<"id">> :> P(prm, "itemId"))
        withComment == (<<"comment">> :> itemComment) @@ item
        withDate ==
            IF /\ Truthy(itemRemoveDate)
               /\ itemRemoveDate.t = "string"
               /\ itemRemoveDate.s \in DOMAIN KnownDates
            THEN (<<"removeDate">> :> Str(toISOString(KnownDates[itemRemoveDate.s])))
                 @@ withComment
            ELSE withComment
        requestBody ==
            Obj((<<"requestedFor">> :> Arr(<<P(prm, "identityId")>>))
                @@ (<<"requestType">> :> Str(<<"REVOKE_ACCESS">>))
                @@ (<<"requestedItems">> :> Arr(<<Obj(withDate)>>)))
    IN  IF ~IsAbsoluteURL(base)
        THEN [kind |-> "throw", error |-> Thrown("TypeError", <<"Invalid URL">>, Undefined)]
        ELSE IF ~Truthy(itemComment)
        THEN [kind |-> "throw", error |-> Thrown("Error", MsgCommentRequired, Undefined)]
        ELSE [kind |-> "fetch",
              request |-> [site |-> "revokeAccess",
                           url |-> AccessRequestsURL(base),
                           method |-> "POST",
                           headers |-> JSONHeaders(authToken),
                           body |-> JSONdocument(requestBody)]]

ItemTypes == {<<"ACCESS_PROFILE">>, <<"ROLE">>, <<"ENTITLEMENT">>}

\* ['ACCESS_PROFILE', 'ROLE', 'ENTITLEMENT'].includes(itemType)
IsItemType(itemType) == itemType.t = "string" /\ itemType.s \in ItemTypes

MsgItemType == <<"itemType must be ACCESS_PROFILE, ROLE, or ENTITLEMENT">>

MsgFailed == <<"Failed to create revoke access request: ">>

\* the defaults of the options of resolveJSONPathTemplates
DefaultOptions == [omitNoValueForExactTemplates |-> FALSE, injectSGNLNamespace |-> TRUE]

\* the resolver injecting the sgnl namespace anew for every element of an array
\* input: a later clock reading and another random identifier for the elements after
\* the first
resolveJSONPathTemplatesPerElement(input, jobContext, opts, now, uuid) ==
    LET given == OrElse(jobContext, Obj(EmptyObject))
        first == injectSGNLNamespace(given, now, uuid)
        others == injectSGNLNamespace(given, [now EXCEPT !.sec = "later"],
                                      <<"uuid-later">>)
        omit == opts.omitNoValueForExactTemplates
    IN  IF input.t = "array" /\ opts.injectSGNLNamespace
        THEN LET each == [i \in 1..Len(input.a) |->
                             resolveValue(input.a[i], IF i = 1 THEN first ELSE others, omit)]
                 all == [i \in 1..Len(input.a) |-> each[i].result]
                 FlatErrors[i \in 0..Len(input.a)] ==
                     IF i = 0 THEN <<>> ELSE FlatErrors[i - 1] \o each[i].errors
             IN  [result |-> Arr(IF omit THEN SelectSeq(all, LAMBDA x : x # Str(<<>>))
                                 ELSE all),
                  errors |-> FlatErrors[Len(input.a)]]
        ELSE resolveValue(input, IF opts.injectSGNLNamespace THEN first ELSE given, omit)

\* the resolver ignoring omitNoValueForExactTemplates
resolveJSONPathTemplatesNeverOmit(input, jobContext, opts, now, uuid) ==
    LET given == OrElse(jobContext, Obj(EmptyObject))
    IN  resolveValue(input,
                     IF opts.injectSGNLNamespace
                     THEN injectSGNLNamespace(given, now, uuid) ELSE given,
                     FALSE)

\* resolveJSONPathTemplates(input, jobContext, options) with now = new Date() and
\* uuid = crypto.randomUUID() inside its one call of injectSGNLNamespace
resolveJSONPathTemplatesOptions(input, jobContext, opts, now, uuid) ==
    LET given == OrElse(jobContext, Obj(EmptyObject))
        resolvedJobContext == IF opts.injectSGNLNamespace
                              THEN injectSGNLNamespace(given, now, uuid)
                              ELSE given
    IN  resolveValue(input, resolvedJobContext, opts.omitNoValueForExactTemplates)

\* resolveJSONPathTemplates(params, jobContext) as invoke calls it (script.mjs:99-102):
\* the sgnl namespace injected, no omission
resolveJSONPathTemplates(input, jobContext, now, uuid) ==
    resolveJSONPathTemplatesOptions(input, jobContext, DefaultOptions, now, uuid)

\* invoke from authHeader on (script.mjs:122-127): the error revokeAccess throws, or
\* the POST invoke waits on
InvokeWithHeader(prm, base, header) ==
    LET call == revokeAccess(prm, base, header)
    IN  IF call.kind = "throw"
        THEN [pc |-> "done", outcome |-> call.error, sent |-> <<>>, authHeader |-> Str(header)]
        ELSE [pc |-> "awaitPost", outcome |-> NoOutcome, sent |-> <<call.request>>,
              authHeader |-> Str(header)]

\* invoke with the authorization header resolved before the item type is checked
InvokeResolvedAuthFirst(prm, ctx) ==
    LET base == getBaseURL(prm, ctx)
        auth == getAuthorizationHeader(ctx)
        stop(error, b) ==
            [pc |-> "done", outcome |-> error, sent |-> <<>>, authHeader |-> Undefined,
             baseUrl |-> b]
    IN  IF auth.kind = "throw" THEN stop(auth.error, Undefined)
        ELSE IF auth.kind = "fetch"
        THEN [pc |-> "awaitToken", outcome |-> NoOutcome, sent |-> <<auth.request>>,
              authHeader |-> Undefined,
              baseUrl |-> IF base.kind = "throw" THEN Str(<<>>) ELSE Str(base.value)]
        ELSE IF ~IsItemType(P(prm, "itemType"))
        THEN stop(Thrown("Error", MsgItemType, Undefined), Undefined)
        ELSE IF base.kind = "throw" THEN stop(base.error, Undefined)
        ELSE InvokeWithHeader(prm, base.value, auth.value) @@ [baseUrl |-> Str(base.value)]

\* invoke raising an error when the resolver left a placeholder in its params
InvokeResolvedOrRaise(prm, ctx) ==
    LET base == getBaseURL(prm, ctx)
        auth == getAuthorizationHeader(ctx)
        stop(error, b) ==
            [pc |-> "done", outcome |-> error, sent |-> <<>>, authHeader |-> Undefined,
             baseUrl |-> b]
    IN  IF \E k \in DOMAIN prm.o : prm.o[k] = Str(NO_VALUE_PLACEHOLDER)
        THEN stop(Thrown("Error", <<"Template resolution errors">>, Undefined), Undefined)
        ELSE IF ~IsItemType(P(prm, "itemType"))
        THEN stop(Thrown("Error", MsgItemType, Undefined), Undefined)
        ELSE IF base.kind = "throw" THEN stop(base.error, Undefined)
        ELSE IF auth.kind = "throw" THEN stop(auth.error, Str(base.value))
        ELSE IF auth.kind = "fetch"
        THEN [pc |-> "awaitToken", outcome |-> NoOutcome, sent |-> <<auth.request>>,
              authHeader |-> Undefined, baseUrl |-> Str(base.value)]
        ELSE InvokeWithHeader(prm, base.value, auth.value) @@ [baseUrl |-> Str(base.value)]

\* invoke from resolvedParams on, up to its first await (script.mjs:107-127)
InvokeResolved(prm, ctx) ==
    LET base == getBaseURL(prm, ctx)
        auth == getAuthorizationHeader(ctx)
        stop(error, b) ==
            [pc |-> "done", outcome |-> error, sent |-> <<>>, authHeader |-> Undefined,
             baseUrl |-> b]
    IN  IF ~IsItemType(P(prm, "itemType"))
        THEN stop(Thrown("Error", MsgItemType, Undefined), Undefined)
        ELSE IF base.kind = "throw" THEN stop(base.error, Undefined)
        ELSE IF auth.kind = "throw" THEN stop(auth.error, Str(base.value))
        ELSE IF auth.kind = "fetch"
        THEN [pc |-> "awaitToken", outcome |-> NoOutcome, sent |-> <<auth.request>>,
              authHeader |-> Undefined, baseUrl |-> Str(base.value)]
        ELSE InvokeWithHeader(prm, base.value, auth.value) @@ [baseUrl |-> Str(base.value)]

\* The error invoke throws for a non-ok response (script.mjs:146-172).  When
\* response.json() or the reading of the parsed body throws, the catch block calls
\* response.text(): that gives the text when the body can be read again (a stubbed
\* response) and throws a TypeError when json() has already consumed it.
ErrorOfResponse(response) ==
    LET statusCode == response.status
        errorBody == response.body.value
        messages == P(errorBody, "messages")
        first == Member(messages, <<"0">>)
    IN  IF BodyIsJSON(response) /\ errorBody.t \notin {"undefined", "null"}
           /\ ~(~Truthy(P(errorBody, "detailCode")) /\ messages.t = "array"
                /\ Len(messages.a) > 0 /\ first.t \in {"undefined", "null"})
        THEN Thrown("Error",
                 IF Truthy(P(errorBody, "detailCode"))
                 THEN MsgFailed \o TemplateLiteral(P(errorBody, "detailCode")) \o <<" - ">>
                      \o TemplateLiteral(OrElse(P(errorBody, "trackingId"), Str(<<>>)))
                 ELSE IF messages.t = "array" /\ Len(messages.a) > 0
                 THEN MsgFailed \o TemplateLiteral(P(first, "text"))
                 ELSE IF Truthy(P(errorBody, "message"))
                 THEN MsgFailed \o TemplateLiteral(P(errorBody, "message"))
                 ELSE MsgFailed \o <<"HTTP ">> \o NumToStr(statusCode),
                 Num(statusCode))
        ELSE IF ~response.body.rereadable
        THEN Thrown("TypeError", <<"Body is unusable">>, Undefined)
        ELSE IF response.body.text # <<>>
        THEN Thrown("Error", MsgFailed \o response.body.text, Num(statusCode))
        ELSE Thrown("Error", MsgFailed \o <<"HTTP ">> \o NumToStr(statusCode), Num(statusCode))

\* invoke's handling of the response with the status taken as it is, without the
\* PENDING default
InvokeFromResponseNoDefault(response, prm, base, now) ==
    IF response.ok /\ BodyIsJSON(response) /\ response.body.value.t = "object"
    THEN [kind |-> "result",
          value |-> [requestId |-> P(response.body.value, "id"),
                     identityId |-> P(prm, "identityId"),
                     itemType |-> P(prm, "itemType"),
                     itemId |-> P(prm, "itemId"),
                     status |-> P(response.body.value, "status"),
                     requestedAt |-> Str(toISOString(now)),
                     address |-> base]]
    ELSE Thrown("Error", MsgFailed \o <<"HTTP ">> \o NumToStr(response.status),
                Num(response.status))

\* invoke's handling of the response with any JSON object taken for a success,
\* response.ok not looked at
InvokeFromResponseIgnoresOk(response, prm, base, now) ==
    IF BodyIsJSON(response) /\ response.body.value.t = "object"
    THEN [kind |-> "result",
          value |-> [requestId |-> P(response.body.value, "id"),
                     identityId |-> P(prm, "identityId"),
                     itemType |-> P(prm, "itemType"),
                     itemId |-> P(prm, "itemId"),
                     status |-> OrElse(P(response.body.value, "status"), Str(<<"PENDING">>)),
                     requestedAt |-> Str(toISOString(now)),
                     address |-> base]]
    ELSE Thrown("Error", MsgFailed \o <<"HTTP ">> \o NumToStr(response.status),
                Num(response.status))

\* invoke from the response of the POST on (script.mjs:129-172)
InvokeFromResponse(response, prm, base, now) ==
    IF response.ok
    THEN IF ~BodyIsJSON(response)
         THEN Thrown("SyntaxError", <<"Unexpected token">>, Undefined)
         ELSE IF response.body.value.t \in {"undefined", "null"}
         THEN Thrown("TypeError", <<"Cannot read properties of null">>, Undefined)
         ELSE [kind |-> "result",
               value |-> [requestId |-> P(response.body.value, "id"),
                          identityId |-> P(prm, "identityId"),
                          itemType |-> P(prm, "itemType"),
                          itemId |-> P(prm, "itemId"),
                          status |-> OrElse(P(response.body.value, "status"),
                                            Str(<<"PENDING">>)),
                          requestedAt |-> Str(toISOString(now)),
                          address |-> base]]
    ELSE ErrorOfResponse(response)

---------------------------------------------------------------------------
(* Inputs: the params and context the harness passes, the clock, the random source
   and the answers of the network *)

\* the number of distinct request ids the API answers with
MaxRequestId == 2

Key(name) == <<name>>

TemplateOf(path) == <<"{", "$", ".">> \o path \o <<"}">>

\* context.data: the job context the templates read
JobData ==
    Obj((Key("user") :> Obj((Key("id") :> Str(<<"identity-u">>))
                            @@ (Key("type") :> Str(<<"ENTITLEMENT">>))
                            @@ (Key("note") :> Str(<<>>)))))

\* identityId and itemId: both plain, either one missing, or identityId a template
IdentityAndItemIds ==
    {<<Str(<<"identity-a">>), Str(<<"item-a">>)>>,
     <<Undefined, Str(<<"item-a">>)>>,
     <<Str(<<"identity-a">>), Undefined>>,
     <<Str(TemplateOf(<<"user", ".", "id">>)), Str(<<"item-a">>)>>}

ItemTypeInputs ==
    {Undefined, Str(<<"ROLE">>), Str(<<"INVALID_TYPE">>),
     Str(TemplateOf(<<"user", ".", "type">>))}

ItemComments == {Undefined, Str(<<>>), Str(<<"no longer needed">>)}

Addresses == {Undefined, Str(<<"https:", "/", "/", "tenant", ".", "api", "/">>)}

EnvAddresses == {Undefined, Str(<<"https:", "/", "/", "env", ".", "api", "/", "base">>)}

\* itemRemoveDate: none, a date, a text that is no date
RemoveDates == {Undefined, Str(<<"2", "0", "2", "6", "-01-01">>), Str(<<"tomorrow">>)}

\* clientMetadata and itemClientMetadata: none, or a JSON string
ClientMetadatas == {Undefined, Str(<<"{", "\"", "k", "\"", ":", "\"", "v", "\"", "}">>)}

\* valid params with the optional ones: a remove date and the two client metadata
OptionalParamsInputs ==
    {Obj((Key("identityId") :> Str(<<"identity-a">>)) @@ (Key("itemType") :> Str(<<"ROLE">>))
         @@ (Key("itemId") :> Str(<<"item-a">>))
         @@ (Key("itemComment") :> Str(<<"no longer needed">>))
         @@ (Key("address") :> Str(<<"https:", "/", "/", "tenant", ".", "api", "/">>))
         @@ (Key("itemRemoveDate") :> d) @@ (Key("clientMetadata") :> c)
         @@ (Key("itemClientMetadata") :> i)) :
        d \in RemoveDates, c \in ClientMetadatas, i \in ClientMetadatas}

\* a template naming a field the job data does not have
MissingTemplate == Str(TemplateOf(<<"user", ".", "missing">>))

\* params valid but for a template that cannot be resolved in identityId, itemId or
\* itemComment
UnresolvedParamsInputs ==
    {Obj((Key("identityId") :> id) @@ (Key("itemType") :> Str(<<"ROLE">>))
         @@ (Key("itemId") :> item) @@ (Key("itemComment") :> comment)
         @@ (Key("address") :> Str(<<"https:", "/", "/", "tenant", ".", "api", "/">>))) :
        id \in {Str(<<"identity-a">>), MissingTemplate},
        item \in {Str(<<"item-a">>), MissingTemplate},
        comment \in {Str(<<"no longer needed">>), MissingTemplate}}

ParamsInputs ==
    {Obj((Key("identityId") :> ids[1]) @@ (Key("itemType") :> b) @@ (Key("itemId") :> ids[2])
         @@ (Key("itemComment") :> d) @@ (Key("address") :> e)) :
        ids \in IdentityAndItemIds, b \in ItemTypeInputs, d \in ItemComments, e \in Addresses}
    \cup OptionalParamsInputs \cup UnresolvedParamsInputs

SecretsInputs ==
    {Obj((Key("BEARER_AUTH_TOKEN") :> a) @@ (Key("BASIC_USERNAME") :> b)
         @@ (Key("BASIC_PASSWORD") :> c)
         @@ (Key("OAUTH2_AUTHORIZATION_CODE_ACCESS_TOKEN") :> d)
         @@ (Key("OAUTH2_CLIENT_CREDENTIALS_CLIENT_SECRET") :> e)) :
        a \in {Undefined, Str(<<"Bearer ", "static-token">>)},
        b \in {Undefined, Str(<<"user">>)},
        c \in {Undefined, Str(<<"password">>)},
        d \in {Undefined, Str(<<"code-token">>)},
        e \in {Undefined, Str(<<"client-secret">>)}}

\* the environment of the client-credentials flow: the token URL missing, the client id
\* missing, both set (client id and secret sent in the Authorization header), and both
\* set with scope, audience and the InParams style
ClientEnvironments ==
    {(Key("OAUTH2_CLIENT_CREDENTIALS_TOKEN_URL") :> c[1])
        @@ (Key("OAUTH2_CLIENT_CREDENTIALS_CLIENT_ID") :> c[2])
        @@ (Key("OAUTH2_CLIENT_CREDENTIALS_SCOPE") :> c[3])
        @@ (Key("OAUTH2_CLIENT_CREDENTIALS_AUDIENCE") :> c[4])
        @@ (Key("OAUTH2_CLIENT_CREDENTIALS_AUTH_STYLE") :> c[5]) :
        c \in {<<Undefined, Str(<<"client-id">>), Undefined, Undefined, Undefined>>,
               <<Str(<<"https:", "/", "/", "idp", "/", "token">>), Undefined,
                 Undefined, Undefined, Undefined>>,
               <<Str(<<"https:", "/", "/", "idp", "/", "token">>), Str(<<"client-id">>),
                 Undefined, Undefined, Undefined>>,
               <<Str(<<"https:", "/", "/", "idp", "/", "token">>), Str(<<"client-id">>),
                 Str(<<"scope-a">>), Str(<<"audience-a">>), Str(<<"InParams">>)>>}}

EnvironmentInputs ==
    {Obj((Key("ADDRESS") :> a) @@ c) : a \in EnvAddresses, c \in ClientEnvironments}

ContextInputs ==
    {Obj((Key("environment") :> e) @@ (Key("secrets") :> x) @@ (Key("data") :> JobData)) :
        e \in EnvironmentInputs, x \in SecretsInputs}

\* new Date()
Dates ==
    {[sec |-> "2026-11-06T10:00:00", ms |-> <<"1", "2", "3">>],
     [sec |-> "2026-11-06T10:00:01", ms |-> <<"0", "0", "7">>]}

\* crypto.randomUUID()
Uuids == {<<"uuid-a">>, <<"uuid-b">>}

JSONBody(value) == [json |-> TRUE, value |-> value, text |-> <<>>, rereadable |-> FALSE]

TextBody(text, rereadable) ==
    [json |-> FALSE, value |-> Undefined, text |-> text, rereadable |-> rereadable]

Response(ok, status, statusText, body) ==
    [ok |-> ok, status |-> status, statusText |-> statusText, body |-> body]

\* fetch() rejecting: no response at all
NetworkError == [ok |-> FALSE, status |-> 0, statusText |-> <<"network error">>,
                 body |-> TextBody(<<>>, FALSE)]

RequestIds == {Str(<<"request-">> \o NumToStr(n)) : n \in 1..MaxRequestId}

\* the answers of the token endpoint
TokenResponses ==
    {Response(TRUE, 200, <<"OK">>, JSONBody(Obj(Key("access_token") :> Str(<<"fresh-token">>)))),
     Response(TRUE, 200, <<"OK">>, JSONBody(Obj(Key("token_type") :> Str(<<"bearer">>)))),
     Response(TRUE, 200, <<"OK">>, TextBody(<<"<html>">>, FALSE)),
     Response(FALSE, 401, <<"Unauthorized">>,
              JSONBody(Obj(Key("error") :> Str(<<"invalid_client">>)))),
     Response(FALSE, 500, <<"Internal Server Error">>, TextBody(<<"oops">>, TRUE)),
     Response(FALSE, 502, <<"Bad Gateway">>, TextBody(<<"<html>">>, FALSE))}

\* the answers of the access-requests endpoint
OkResponses ==
    {Response(TRUE, 202, <<"Accepted">>, JSONBody(Obj(Key("id") :> id))) : id \in RequestIds}
    \cup {Response(TRUE, 200, <<"OK">>,
                   JSONBody(Obj((Key("id") :> id) @@ (Key("status") :> st)))) :
             id \in {Str(<<"request-">> \o NumToStr(1))},
             st \in {Str(<<"APPROVED">>), Str(<<>>), Null}}
    \cup {Response(TRUE, 202, <<"Accepted">>, TextBody(<<>>, FALSE)),
          Response(TRUE, 200, <<"OK">>, JSONBody(Null))}

FailedResponses ==
    {Response(FALSE, 400, <<"Bad Request">>,
              JSONBody(Obj((Key("detailCode") :> Str(<<"4", "0", "0", ".", "1">>))
                           @@ (Key("trackingId") :> Str(<<"track-a">>))
                           @@ (Key("messages") :>
                                  Arr(<<Obj(Key("text") :> Str(<<"bad item">>))>>))))),
     Response(FALSE, 400, <<"Bad Request">>,
              JSONBody(Obj((Key("detailCode") :> Str(<<"4", "0", "0", ".", "1">>))))),
     Response(FALSE, 403, <<"Forbidden">>,
              JSONBody(Obj((Key("messages") :>
                               Arr(<<Obj(Key("text") :> Str(<<"not allowed">>))>>))
                           @@ (Key("message") :> Str(<<"forbidden">>))))),
     Response(FALSE, 401, <<"Unauthorized">>,
              JSONBody(Obj(Key("message") :> Str(<<"token expired">>)))),
     Response(FALSE, 404, <<"Not Found">>, JSONBody(Obj(Key("messages") :> Arr(<<>>)))),
     Response(FALSE, 500, <<"Internal Server Error">>, JSONBody(Null))}
    \cup {Response(FALSE, 429, <<"Too Many Requests">>, TextBody(<<"rate limit exceeded">>, r)) :
             r \in BOOLEAN}
    \cup {Response(FALSE, 503, <<"Service Unavailable">>, TextBody(<<>>, r)) : r \in BOOLEAN}

PostResponses == OkResponses \cup FailedResponses

---------------------------------------------------------------------------
(* The invocation *)

Init ==
    /\ params \in ParamsInputs
    /\ context \in ContextInputs
    /\ pc = "start"
    /\ resolvedParams = Undefined
    /\ templateErrors = <<>>
    /\ baseUrl = Undefined
    /\ authHeader = Undefined
    /\ requests = <<>>
    /\ responses = <<>>
    /\ options = DefaultOptions
    /\ timers = <<>>
    /\ outcome = NoOutcome

\* invoke(params, context) up to its first await, or to its end when it throws before
Invoke ==
    /\ pc = "start"
    /\ \E now \in Dates, uuid \in Uuids :
       \E resolved \in {resolveJSONPathTemplates(params, P(context, "data"), now, uuid)} :
       \E step \in {InvokeResolved(resolved.result, context)} :
          /\ resolvedParams' = resolved.result
          /\ templateErrors' = resolved.errors
          /\ baseUrl' = step.baseUrl
          /\ authHeader' = step.authHeader
          /\ requests' = requests \o step.sent
          /\ outcome' = step.outcome
          /\ pc' = step.pc
    /\ UNCHANGED <<params, context, options, responses, timers>>

\* invoke from the answer of the token endpoint on (fetch rejects when there is none):
\* getAuthorizationHeader returns or throws, and invoke goes on to revokeAccess
InvokeFromToken(response, prm, base) ==
    LET auth == AuthorizationFromToken(response)
    IN  IF response = NetworkError
        THEN [pc |-> "done", outcome |-> Thrown("TypeError", <<"fetch failed">>, Undefined),
              sent |-> <<>>, authHeader |-> Undefined]
        ELSE IF auth.kind = "throw"
        THEN [pc |-> "done", outcome |-> auth.error, sent |-> <<>>, authHeader |-> Undefined]
        ELSE InvokeWithHeader(prm, base, auth.value)

\* the token endpoint answers, or the fetch fails
TokenResponse ==
    /\ pc = "awaitToken"
    /\ \E response \in TokenResponses \cup {NetworkError} :
       \E step \in {InvokeFromToken(response, resolvedParams, baseUrl.s)} :
          /\ responses' = Append(responses, response)
          /\ authHeader' = step.authHeader
          /\ requests' = requests \o step.sent
          /\ outcome' = step.outcome
          /\ pc' = step.pc
    /\ UNCHANGED <<params, context, options, resolvedParams, templateErrors, baseUrl, timers>>

\* the access-requests endpoint answers, or the fetch fails: invoke returns its result
\* or throws
PostResponse ==
    /\ pc = "awaitPost"
    /\ \E response \in PostResponses \cup {NetworkError}, now \in Dates :
          /\ responses' = Append(responses, response)
          /\ outcome' = IF response = NetworkError
                        THEN Thrown("TypeError", <<"fetch failed">>, Undefined)
                        ELSE InvokeFromResponse(response, resolvedParams, baseUrl.s, now)
    /\ pc' = "done"
    /\ UNCHANGED <<params, context, options, resolvedParams, templateErrors, baseUrl, authHeader,
                   requests, timers>>

Next == Invoke \/ TokenResponse \/ PostResponse

Spec == Init /\ [][Next]_vars

---------------------------------------------------------------------------
(* Vocabulary of the properties *)

\* the fetch calls issued by revokeAccess: the POSTs to the access-requests endpoint
Posts == SelectSeq(requests, LAMBDA r : r.site = "revokeAccess")

\* the fetch calls issued by getClientCredentialsToken: the POSTs to the token endpoint
TokenCalls == SelectSeq(requests, LAMBDA r : r.site = "getClientCredentialsToken")

Secret(name) == P(P(context, "secrets"), name)

Env(name) == P(P(context, "environment"), name)

IsSet(v) == v.t = "string" /\ v.s # <<>>

BearerConfigured == IsSet(Secret("BEARER_AUTH_TOKEN"))

BasicConfigured == IsSet(Secret("BASIC_USERNAME")) /\ IsSet(Secret("BASIC_PASSWORD"))

AccessTokenConfigured == IsSet(Secret("OAUTH2_AUTHORIZATION_CODE_ACCESS_TOKEN"))

ClientSecretConfigured == IsSet(Secret("OAUTH2_CLIENT_CREDENTIALS_CLIENT_SECRET"))

\* the client-credentials method is the one selected: no higher-priority source is set
ClientCredentialsSelected ==
    /\ ClientSecretConfigured
    /\ ~BearerConfigured
    /\ ~BasicConfigured
    /\ ~AccessTokenConfigured

TokenEndpointConfigured ==
    /\ IsSet(Env("OAUTH2_CLIENT_CREDENTIALS_TOKEN_URL"))
    /\ IsSet(Env("OAUTH2_CLIENT_CREDENTIALS_CLIENT_ID"))

ValidItemTypes == {Str(<<"ACCESS_PROFILE">>), Str(<<"ROLE">>), Str(<<"ENTITLEMENT">>)}

\* invoke has run its synchronous start: the params are resolved
Started == pc # "start"

\* the item type invoke validates, after template resolution
ResolvedItemType == P(resolvedParams, "itemType")

AddressConfigured == IsSet(P(params, "address")) \/ IsSet(Env("ADDRESS"))

\* invoke got as far as resolving the authorization header
AuthorizationReached == Started /\ ResolvedItemType \in ValidItemTypes /\ AddressConfigured

Failed == pc = "done" /\ outcome.kind = "error"

FailedWith(message) == Failed /\ outcome.message = message

Returned == pc = "done" /\ outcome.kind = "result"

HasTemplate(v) == v.t = "string" /\ \E i \in 1..Len(v.s) : v.s[i] = "{"

---------------------------------------------------------------------------
(* C2 *)

\* C2: whenever the item type, after template resolution, is not one of ACCESS_PROFILE,
\* ROLE, ENTITLEMENT (missing included), invoke ends by throwing 'itemType must be
\* ACCESS_PROFILE, ROLE, or ENTITLEMENT' and no fetch call at all has been issued,
\* whatever the address and the credentials are.
C2_InvalidItemTypeFailsBeforeNetwork ==
    (Started /\ ResolvedItemType \notin ValidItemTypes)
        => /\ FailedWith(<<"itemType must be ACCESS_PROFILE, ROLE, or ENTITLEMENT">>)
           /\ requests = <<>>

\* an invalid item type with the client-credentials flow fully configured and an
\* address set: everything a network call would need, and none is made
C2_Witness ==
    /\ FailedWith(<<"itemType must be ACCESS_PROFILE, ROLE, or ENTITLEMENT">>)
    /\ P(params, "itemType") = Str(<<"INVALID_TYPE">>)
    /\ ClientCredentialsSelected
    /\ TokenEndpointConfigured
    /\ AddressConfigured
    /\ IsSet(P(params, "itemComment"))
    /\ requests = <<>>

---------------------------------------------------------------------------
(* C1 *)

\* the place of the access-requests POST among the requests, and the answer it got
PostIndex == CHOOSE i \in 1..Len(requests) : requests[i].site = "revokeAccess"

PostAnswered == Len(Posts) = 1 /\ Len(responses) >= PostIndex

PostAnswer == responses[PostIndex]

\* the answer is an ok response whose body is a JSON object
AnsweredOk ==
    /\ PostAnswered
    /\ PostAnswer # NetworkError
    /\ PostAnswer.ok
    /\ PostAnswer.body.json
    /\ PostAnswer.body.value.t = "object"

CredentialsConfigured ==
    \/ BearerConfigured
    \/ BasicConfigured
    \/ AccessTokenConfigured
    \/ ClientSecretConfigured /\ TokenEndpointConfigured

\* the value at user.<name> of the job context, read directly
UserData(name) == context.o[<<"data">>].o[<<"user">>].o[<<name>>]

\* what a given param is once its template is resolved against the job context: the
\* templates of the inputs are {$.user.id} and {$.user.type}; a param without a
\* template token is unchanged
AfterResolution(given) ==
    IF given = Str(<<"{", "$", ".", "user", ".", "id", "}">>) THEN UserData("id")
    ELSE IF given = Str(<<"{", "$", ".", "user", ".", "type", "}">>) THEN UserData("type")
    ELSE IF given = Str(<<"{", "$", ".", "user", ".", "missing", "}">>)
    THEN Str(<<"{", "No Value", "}">>)
    ELSE given

---------------------------------------------------------------------------
(* C3 *)

\* C3: when itemComment is missing or empty, invoke fails and no fetch call of any
\* kind is issued (neither the access-requests POST nor a token-endpoint call), for
\* every credential configuration, OAuth2 client credentials included.
C3_MissingCommentSendsNothing ==
    ~IsSet(P(params, "itemComment"))
        => /\ requests = <<>>
           /\ (pc = "done" => outcome.kind = "error")

---------------------------------------------------------------------------
(* C4 *)

---------------------------------------------------------------------------
(* C5 *)

NoCredentials ==
    /\ ~BearerConfigured
    /\ ~BasicConfigured
    /\ ~AccessTokenConfigured
    /\ ~ClientSecretConfigured

---------------------------------------------------------------------------
(* C6 *)

\* C6: each call of invoke issues at most one POST to the access-requests endpoint;
\* the POST is issued only after the item type was found valid, the base address was
\* resolved and the authorization header was resolved (with the client-credentials
\* method, after the token endpoint answered ok with a token); and invoke returns a
\* result only if the POST was issued and answered with an ok response.
C6_OnePostAfterChecks ==
    /\ Len(Posts) <= 1
    /\ (Len(Posts) = 1
           => /\ ResolvedItemType \in ValidItemTypes
              /\ AddressConfigured
              /\ baseUrl.t = "string"
              /\ CredentialsConfigured
              /\ authHeader.t = "string"
              /\ requests[Len(requests)].site = "revokeAccess"
              /\ (ClientCredentialsSelected <=> Len(TokenCalls) = 1)
              /\ (Len(TokenCalls) = 1
                     => /\ requests[1].site = "getClientCredentialsToken"
                        /\ responses[1] # NetworkError
                        /\ responses[1].ok
                        /\ IsSet(P(responses[1].body.value, "access_token"))))
    /\ (outcome.kind = "result"
           => /\ PostAnswered
              /\ PostAnswer # NetworkError
              /\ PostAnswer.ok)

\* a result after a token call and the POST
C6_Witness ==
    /\ Returned
    /\ Len(requests) = 2
    /\ Len(TokenCalls) = 1
    /\ Len(Posts) = 1
    /\ PostAnswer.ok

---------------------------------------------------------------------------
(* C7 *)

BearerValue(token) == IF token[1] = "Bearer " THEN token ELSE <<"Bearer ">> \o token

\* C7: the authorization header comes from the highest-priority configured source, in
\* the order bearer token, Basic username/password, pre-obtained OAuth2 access token,
\* OAuth2 client credentials; whenever one of the first three is configured invoke has
\* the header once it reaches the resolver, and the token endpoint is never contacted.
C7_PriorityOrder ==
    /\ (BearerConfigured
           => /\ TokenCalls = <<>>
              /\ (AuthorizationReached => authHeader.t = "string")
              /\ (authHeader.t = "string"
                     => authHeader.s = BearerValue(Secret("BEARER_AUTH_TOKEN").s)))
    /\ (~BearerConfigured /\ BasicConfigured
           => /\ TokenCalls = <<>>
              /\ (AuthorizationReached => authHeader.t = "string")
              /\ (authHeader.t = "string"
                     => authHeader.s = <<"Basic ">> \o Base64(Secret("BASIC_USERNAME").s
                                           \o <<":">> \o Secret("BASIC_PASSWORD").s)))
    /\ (~BearerConfigured /\ ~BasicConfigured /\ AccessTokenConfigured
           => /\ TokenCalls = <<>>
              /\ (AuthorizationReached => authHeader.t = "string")
              /\ (authHeader.t = "string"
                     => authHeader.s
                        = BearerValue(Secret("OAUTH2_AUTHORIZATION_CODE_ACCESS_TOKEN").s)))
    /\ (ClientCredentialsSelected /\ authHeader.t = "string"
           => /\ Len(TokenCalls) = 1
              /\ requests[1].url = Env("OAUTH2_CLIENT_CREDENTIALS_TOKEN_URL").s
              /\ authHeader.s = <<"Bearer ">> \o P(responses[1].body.value, "access_token").s)

\* all four sources configured: the bearer token wins and nothing else is contacted
C7_Witness ==
    /\ BearerConfigured
    /\ BasicConfigured
    /\ AccessTokenConfigured
    /\ ClientSecretConfigured
    /\ TokenEndpointConfigured
    /\ pc = "awaitPost"
    /\ authHeader = Str(<<"Bearer ", "static-token">>)
    /\ Len(requests) = 1
    /\ requests[1].headers["Authorization"] = <<"Bearer ", "static-token">>

---------------------------------------------------------------------------
(* C8 *)

\* C8 as stated: authorization resolution performs exactly one fetch call (the
\* token-endpoint POST) when the client-credentials branch is the one selected, and
\* none in the bearer, Basic and pre-obtained-token branches.
C8_OneTokenCallWhenSelected ==
    AuthorizationReached
        => Len(TokenCalls) = (IF ClientCredentialsSelected THEN 1 ELSE 0)

\* C8 amended: authorization resolution performs exactly one fetch call (the
\* token-endpoint POST) when the client-credentials branch is the one selected and the
\* token URL and client id are both configured; it performs none when that branch is
\* selected with either of them missing, and none in the bearer, Basic and
\* pre-obtained-token branches.
C8_OneTokenCallWhenConfigured ==
    /\ (AuthorizationReached
           => Len(TokenCalls)
              = (IF ClientCredentialsSelected /\ TokenEndpointConfigured THEN 1 ELSE 0))
    /\ (~AuthorizationReached => TokenCalls = <<>>)
    /\ \A i \in 1..Len(requests) :
          requests[i].site = "getClientCredentialsToken"
              => /\ i = 1
                 /\ requests[i].method = "POST"
                 /\ requests[i].url = Env("OAUTH2_CLIENT_CREDENTIALS_TOKEN_URL").s

\* the client-credentials branch selected and configured, the token endpoint answered
\* and invoke ended: one token call was made
C8_Witness ==
    /\ pc = "done"
    /\ ClientCredentialsSelected
    /\ TokenEndpointConfigured
    /\ Len(TokenCalls) = 1
    /\ Len(responses) = 2

---------------------------------------------------------------------------
(* C9 *)

---------------------------------------------------------------------------
(* C10 *)

\* C10: invoke validates identityId and itemId: when identityId is missing or not a
\* string no fetch call is issued and invoke fails, with 'Invalid or missing identityId
\* parameter' when the other params are valid; when itemId is missing or not a string no
\* fetch call is issued and invoke fails, with 'Invalid or missing itemId parameter'
\* when the other params are valid.
C10_IdsValidated ==
    /\ (~IsSet(P(params, "identityId"))
           => /\ requests = <<>>
              /\ (pc = "done" => outcome.kind = "error")
              /\ ((/\ pc = "done"
                   /\ ResolvedItemType \in ValidItemTypes
                   /\ IsSet(P(params, "itemId"))
                   /\ IsSet(P(params, "itemComment")))
                     => outcome.message = <<"Invalid or missing identityId parameter">>))
    /\ (~IsSet(P(params, "itemId"))
           => /\ requests = <<>>
              /\ (pc = "done" => outcome.kind = "error")
              /\ ((/\ pc = "done"
                   /\ ResolvedItemType \in ValidItemTypes
                   /\ IsSet(P(params, "identityId"))
                   /\ IsSet(P(params, "itemComment")))
                     => outcome.message = <<"Invalid or missing itemId parameter">>))

---------------------------------------------------------------------------
(* C11 *)

\* the access-requests POST was answered with a non-ok response and invoke has ended
AnsweredNotOk ==
    /\ pc = "done"
    /\ PostAnswered
    /\ PostAnswer # NetworkError
    /\ ~PostAnswer.ok

\* C11: for every non-ok response to the access-requests POST, whether its body is
\* JSON, plain text or empty, invoke throws an error whose statusCode attribute is the
\* numeric HTTP status of the response.
C11_StatusCodeOnEveryFailure ==
    AnsweredNotOk
        => /\ outcome.kind = "error"
           /\ outcome.statusCode = Num(PostAnswer.status)

---------------------------------------------------------------------------
(* C12 *)

\* C12: the message of the error thrown for a non-ok response is chosen by priority:
\* the body's detailCode when present (the message contains it), otherwise the text of
\* the first entry of messages, otherwise message, otherwise (body not JSON) the
\* non-empty raw text of the response, otherwise 'HTTP <status>'; always after the
\* prefix 'Failed to create revoke access request: '.
C12_MessagePriority ==
    AnsweredNotOk
        => LET body == PostAnswer.body
               errorBody == body.value
               messages == P(errorBody, "messages")
               said(text) == outcome.message = <<"Failed to create revoke access request: ">> \o text
           IN  /\ outcome.kind = "error"
               /\ IF body.json /\ IsSet(P(errorBody, "detailCode"))
                  THEN /\ StartsWith(outcome.message,
                                     <<"Failed to create revoke access request: ">>)
                       /\ Includes(outcome.message, P(errorBody, "detailCode").s)
                  ELSE IF body.json /\ messages.t = "array" /\ Len(messages.a) > 0
                  THEN said(P(messages.a[1], "text").s)
                  ELSE IF body.json /\ IsSet(P(errorBody, "message"))
                  THEN said(P(errorBody, "message").s)
                  ELSE IF ~body.json /\ body.text # <<>>
                  THEN said(body.text)
                  ELSE said(<<"HTTP ">> \o NumToStr(PostAnswer.status))

---------------------------------------------------------------------------
(* The error and halt handlers of src/script.mjs *)

\* an Error object as a value: its message and the statusCode attribute set on it
ErrorObject(name, message, statusCode) ==
    Obj((Key("name") :> Str(<<name>>)) @@ (Key("message") :> Str(message))
        @@ (Key("statusCode") :> statusCode))

\* the errors invoke throws, as the harness hands them to the error handler
ErrorInputs ==
    {ErrorObject("Error", MsgItemType, Undefined),
     ErrorObject("Error", MsgNoAuth, Undefined),
     ErrorObject("TypeError", <<"fetch failed">>, Undefined),
     ErrorObject("Error", MsgFailed \o <<"rate limit", " exceeded">>, Num(429)),
     ErrorObject("Error", MsgFailed \o <<"HTTP ">> \o NumToStr(503), Num(503)),
     ErrorObject("Error", MsgFailed \o <<"4", "0", "0", ".", "1", " - ">>, Num(400))}

HaltReasons == {Undefined, Str(<<"timeout">>)}

\* what identityId, itemType and itemId hold when a handler is called: nothing, the
\* empty string, or a value
HandlerIds == {Undefined, Str(<<>>), Str(<<"identity-a">>)}

HandlerItemTypes == {Undefined, Str(<<>>), Str(<<"ROLE">>)}

HandlerItemIds == {Undefined, Str(<<>>), Str(<<"item-a">>)}

\* the original params plus the error (error handler) or the reason (halt handler)
HandlerParams ==
    {Obj((Key("identityId") :> a) @@ (Key("itemType") :> b) @@ (Key("itemId") :> c)
         @@ (Key("error") :> e) @@ (Key("reason") :> r)) :
        a \in HandlerIds, b \in HandlerItemTypes, c \in HandlerItemIds,
        e \in ErrorInputs \cup {Undefined}, r \in HaltReasons}

\* throw <value>
ThrownValue(value) == [kind |-> "thrown", value |-> value]

\* the error handler throwing a new Error made from the message of the one it got
errorRewrapped(prm) ==
    ThrownValue(ErrorObject("Error", TemplateLiteral(P(P(prm, "error"), "message")), Undefined))

\* error(params, _context) (script.mjs:181-185)
error(prm) == ThrownValue(P(prm, "error"))

\* halt reporting cleanup only when it knows the identity
haltNeedsIdentity(prm, now) ==
    [kind |-> "result",
     value |-> [identityId |-> OrElse(P(prm, "identityId"), Str(<<"unknown">>)),
                itemType |-> OrElse(P(prm, "itemType"), Str(<<"unknown">>)),
                itemId |-> OrElse(P(prm, "itemId"), Str(<<"unknown">>)),
                reason |-> P(prm, "reason"),
                haltedAt |-> Str(toISOString(now)),
                cleanupCompleted |-> Truthy(P(prm, "identityId"))]]

\* halt(params, _context) (script.mjs:193-208)
halt(prm, now) ==
    [kind |-> "result",
     value |-> [identityId |-> OrElse(P(prm, "identityId"), Str(<<"unknown">>)),
                itemType |-> OrElse(P(prm, "itemType"), Str(<<"unknown">>)),
                itemId |-> OrElse(P(prm, "itemId"), Str(<<"unknown">>)),
                reason |-> P(prm, "reason"),
                haltedAt |-> Str(toISOString(now)),
                cleanupCompleted |-> TRUE]]

HandlersInit ==
    /\ params \in HandlerParams
    /\ context \in {Obj((Key("environment") :> Obj(EmptyObject))
                        @@ (Key("secrets") :> Obj(EmptyObject)))}
    /\ pc \in {"error", "halt"}
    /\ resolvedParams = Undefined
    /\ templateErrors = <<>>
    /\ baseUrl = Undefined
    /\ authHeader = Undefined
    /\ requests = <<>>
    /\ responses = <<>>
    /\ options = DefaultOptions
    /\ timers = <<>>
    /\ outcome = NoOutcome

\* the harness calls the error handler
Error ==
    /\ pc = "error"
    /\ outcome' = error(params)
    /\ pc' = "done"
    /\ UNCHANGED <<params, context, options, resolvedParams, templateErrors, baseUrl, authHeader,
                   requests, responses, timers>>

\* the harness calls the halt handler
Halt ==
    /\ pc = "halt"
    /\ \E now \in Dates : outcome' = halt(params, now)
    /\ pc' = "done"
    /\ UNCHANGED <<params, context, options, resolvedParams, templateErrors, baseUrl, authHeader,
                   requests, responses, timers>>

HandlersNext == Error \/ Halt

HandlersSpec == HandlersInit /\ [][HandlersNext]_vars

---------------------------------------------------------------------------
(* The sailpointDomain build: revokeAccess, invoke and the retrying error handler *)

NaN == [t |-> "NaN"]

\* parseInt(s, 10): the number its leading run of digits spells, NaN without one
\* (leading white space and signs are not among the inputs)
parseInt(s) ==
    LET e == DigitRunEnd(s, 1)
    IN  IF e = 0 THEN NaN ELSE Num(StrToNum(SubSeq(s, 1, e)))

\* The texts JSON.parse accepts; it throws a SyntaxError on anything else.
KnownJSONTexts == {<<"{", "\"", "source", "\"", ":", "\"", "sgnl", "\"", "}">>}

\* revokeAccess(params, sailpointDomain, authToken) of the sailpointDomain build up
\* to its fetch, called from site: the error thrown, or the POST sent
revokeAccessDomain(prm, sailpointDomain, authToken, site) ==
    LET base == <<"https:", "/", "/">> \o TemplateLiteral(sailpointDomain)
        itemComment == P(prm, "itemComment")
        itemRemoveDate == P(prm, "itemRemoveDate")
        itemClientMetadata == P(prm, "itemClientMetadata")
        clientMetadata == P(prm, "clientMetadata")
        valid(text) == Truthy(text) /\ text.t = "string" /\ text.s \in KnownJSONTexts
        item == (<<"type">> :> P(prm, "itemType")) @@ (<<"id">> :> P(prm, "itemId"))
                @@ (<<"comment">> :> itemComment)
        withDate ==
            IF /\ Truthy(itemRemoveDate)
               /\ itemRemoveDate.t = "string"
               /\ itemRemoveDate.s \in DOMAIN KnownDates
            THEN (<<"removeDate">> :> Str(toISOString(KnownDates[itemRemoveDate.s]))) @@ item
            ELSE item
        withMetadata ==
            IF valid(itemClientMetadata)
            THEN (<<"clientMetadata">> :> itemClientMetadata) @@ withDate
            ELSE withDate
        request == (<<"requestedFor">> :> Arr(<<P(prm, "identityId")>>))
                   @@ (<<"requestType">> :> Str(<<"REVOKE_ACCESS">>))
                   @@ (<<"requestedItems">> :> Arr(<<Obj(withMetadata)>>))
        requestBody ==
            IF valid(clientMetadata)
            THEN Obj((<<"clientMetadata">> :> clientMetadata) @@ request)
            ELSE Obj(request)
    IN  IF ~IsAbsoluteURL(base)
        THEN [kind |-> "throw", error |-> Thrown("TypeError", <<"Invalid URL">>, Undefined)]
        ELSE IF ~Truthy(itemComment)
        THEN [kind |-> "throw", error |-> Thrown("Error", MsgCommentRequired, Undefined)]
        ELSE IF authToken.t # "string"
        THEN [kind |-> "throw",
              error |-> Thrown("TypeError", <<"authToken.startsWith is not a function">>,
                               Undefined)]
        ELSE [kind |-> "fetch",
              request |-> [site |-> site,
                           url |-> AccessRequestsURL(base),
                           method |-> "POST",
                           headers |-> JSONHeaders(WithBearerPrefix(authToken.s)),
                           body |-> JSONdocument(requestBody)]]

\* `!x || typeof x !== 'string'`
NotAString(v) == ~Truthy(v) \/ v.t # "string"

\* the checks of invoke, in their order: the message of the first that fails, or <<>>
\* the checks of invoke with the secret looked at before the domain
DomainValidationSecretFirst(prm, ctx) ==
    IF NotAString(P(prm, "identityId")) THEN <<"Invalid or missing identityId parameter">>
    ELSE IF NotAString(P(prm, "itemType")) THEN <<"Invalid or missing itemType parameter">>
    ELSE IF ~IsItemType(P(prm, "itemType")) THEN MsgItemType
    ELSE IF NotAString(P(prm, "itemId")) THEN <<"Invalid or missing itemId parameter">>
    ELSE IF ~Truthy(P(SecretsOf(ctx), "SAILPOINT_API_TOKEN"))
    THEN <<"Missing required secret: SAILPOINT_API_TOKEN">>
    ELSE IF NotAString(P(prm, "sailpointDomain"))
    THEN <<"Invalid or missing sailpointDomain parameter">>
    ELSE IF NotAString(P(prm, "itemComment"))
    THEN <<"itemComment is required for revoke access requests">>
    ELSE <<>>

DomainValidation(prm, ctx) ==
    IF NotAString(P(prm, "identityId")) THEN <<"Invalid or missing identityId parameter">>
    ELSE IF NotAString(P(prm, "itemType")) THEN <<"Invalid or missing itemType parameter">>
    ELSE IF ~IsItemType(P(prm, "itemType")) THEN MsgItemType
    ELSE IF NotAString(P(prm, "itemId")) THEN <<"Invalid or missing itemId parameter">>
    ELSE IF NotAString(P(prm, "sailpointDomain"))
    THEN <<"Invalid or missing sailpointDomain parameter">>
    ELSE IF ~Truthy(P(SecretsOf(ctx), "SAILPOINT_API_TOKEN"))
    THEN <<"Missing required secret: SAILPOINT_API_TOKEN">>
    ELSE IF NotAString(P(prm, "itemComment"))
    THEN <<"itemComment is required for revoke access requests">>
    ELSE <<>>

\* invoke(params, context) of the sailpointDomain build up to its await
invokeDomain(prm, ctx) ==
    LET failed == DomainValidation(prm, ctx)
        call == revokeAccessDomain(prm, P(prm, "sailpointDomain"),
                                   P(SecretsOf(ctx), "SAILPOINT_API_TOKEN"), "invoke")
    IN  IF failed # <<>>
        THEN [pc |-> "failed", outcome |-> Thrown("Error", failed, Undefined), sent |-> <<>>]
        ELSE IF call.kind = "throw"
        THEN [pc |-> "failed", outcome |-> call.error, sent |-> <<>>]
        ELSE [pc |-> "awaitPost", outcome |-> NoOutcome, sent |-> <<call.request>>]

\* the error invoke throws for a non-ok response: detailCode, else message, else the
\* text of the body, else the status
ErrorOfResponseDomain(response) ==
    LET statusCode == response.status
        errorBody == response.body.value
    IN  IF BodyIsJSON(response) /\ errorBody.t \notin {"undefined", "null"}
        THEN Thrown("Error",
                 IF Truthy(P(errorBody, "detailCode"))
                 THEN MsgFailed \o TemplateLiteral(P(errorBody, "detailCode")) \o <<" - ">>
                      \o TemplateLiteral(OrElse(P(errorBody, "trackingId"), Str(<<>>)))
                 ELSE IF Truthy(P(errorBody, "message"))
                 THEN MsgFailed \o TemplateLiteral(P(errorBody, "message"))
                 ELSE MsgFailed \o <<"HTTP ">> \o NumToStr(statusCode),
                 Num(statusCode))
        ELSE IF ~response.body.rereadable
        THEN Thrown("TypeError", <<"Body is unusable">>, Undefined)
        ELSE IF response.body.text # <<>>
        THEN Thrown("Error", MsgFailed \o response.body.text, Num(statusCode))
        ELSE Thrown("Error", MsgFailed \o <<"HTTP ">> \o NumToStr(statusCode), Num(statusCode))

\* the result built from an ok response, by invoke (recoveryMethod undefined) and by
\* the error handler after a retry
ResultOfResponse(response, prm, now, recoveryMethod) ==
    IF ~BodyIsJSON(response)
    THEN Thrown("SyntaxError", <<"Unexpected token">>, Undefined)
    ELSE IF response.body.value.t \in {"undefined", "null"}
    THEN Thrown("TypeError", <<"Cannot read properties of null">>, Undefined)
    ELSE [kind |-> "result",
          value |-> [requestId |-> P(response.body.value, "id"),
                     identityId |-> P(prm, "identityId"),
                     itemType |-> P(prm, "itemType"),
                     itemId |-> P(prm, "itemId"),
                     status |-> OrElse(P(response.body.value, "status"), Str(<<"PENDING">>)),
                     requestedAt |-> Str(toISOString(now)),
                     recoveryMethod |-> recoveryMethod]]

\* invoke of the sailpointDomain build from the response of its POST on
invokeDomainFromResponse(response, prm, now) ==
    IF response.ok THEN ResultOfResponse(response, prm, now, Undefined)
    ELSE ErrorOfResponseDomain(response)

\* the rate-limit test looking at the status code only
isRateLimitByStatus(err) == P(err, "statusCode") = Num(429)

\* error.statusCode === 429 || error.message.includes('429')
\*     || error.message.includes('rate limit')
isRateLimit(err) ==
    \/ P(err, "statusCode") = Num(429)
    \/ Includes(P(err, "message").s, <<"4", "2", "9">>)
    \/ Includes(P(err, "message").s, <<"rate limit">>)

\* the service test taking every 5xx status for a temporary failure
isServiceErrorAny5xx(err) ==
    P(err, "statusCode") \in {Num(500), Num(502), Num(503), Num(504)}

\* [502, 503, 504].includes(statusCode)
isServiceError(err) == P(err, "statusCode") \in {Num(502), Num(503), Num(504)}

\* parseInt(context.environment?.RATE_LIMIT_BACKOFF_MS || '30000', 10)
rateLimitBackoffMs(ctx) ==
    parseInt(OrElse(P(P(ctx, "environment"), "RATE_LIMIT_BACKOFF_MS"),
                    Str(<<"3", "0", "0", "0", "0">>)).s)

\* parseInt(context.environment?.SERVICE_ERROR_BACKOFF_MS || '10000', 10)
serviceErrorBackoffMs(ctx) ==
    parseInt(OrElse(P(P(ctx, "environment"), "SERVICE_ERROR_BACKOFF_MS"),
                    Str(<<"1", "0", "0", "0", "0">>)).s)

\* the error the handler ends with when it could not recover
Unrecoverable(prm) ==
    Thrown("Error",
           <<"Unrecoverable error creating revoke access request for identity ">>
           \o TemplateLiteral(P(prm, "identityId")) \o <<": ">>
           \o TemplateLiteral(P(P(prm, "error"), "message")),
           Undefined)

\* the error handler from its second test on (part_000:235-267): the sleep before the
\* service retry, or the unrecoverable error
errorFromServiceTest(prm, ctx) ==
    IF isServiceError(P(prm, "error"))
    THEN [pc |-> "sleepService", sleep |-> <<serviceErrorBackoffMs(ctx)>>,
          outcome |-> NoOutcome]
    ELSE [pc |-> "done", sleep |-> <<>>, outcome |-> Unrecoverable(prm)]

\* error(params, context) of the sailpointDomain build up to its first await
errorRetrying(prm, ctx) ==
    IF P(prm, "error").t \in {"undefined", "null"}
    THEN [pc |-> "done", sleep |-> <<>>,
          outcome |-> Thrown("TypeError", <<"Cannot read properties of undefined">>,
                             Undefined)]
    ELSE IF isRateLimit(P(prm, "error"))
    THEN [pc |-> "sleepRate", sleep |-> <<rateLimitBackoffMs(ctx)>>, outcome |-> NoOutcome]
    ELSE errorFromServiceTest(prm, ctx)

\* the handler sleeping and retrying again in the same category after a failed retry
errorFromRetryResponseAgain(response, prm, ctx, now, category) ==
    IF response.ok
    THEN [pc |-> "done", sleep |-> <<>>,
          outcome |-> ResultOfResponse(response, prm, now,
                          Str(IF category = "rate" THEN <<"rate_limit_retry">>
                              ELSE <<"service_retry">>))]
    ELSE IF category = "rate"
    THEN [pc |-> "sleepRate", sleep |-> <<rateLimitBackoffMs(ctx)>>, outcome |-> NoOutcome]
    ELSE [pc |-> "sleepService", sleep |-> <<serviceErrorBackoffMs(ctx)>>,
          outcome |-> NoOutcome]

\* the error handler from the response of a retry on: the result when it is ok;
\* otherwise the handler falls through, after the rate-limit retry to the service
\* test and after the service retry to the unrecoverable error
errorFromRetryResponse(response, prm, ctx, now, category) ==
    IF response.ok
    THEN [pc |-> "done", sleep |-> <<>>,
          outcome |-> ResultOfResponse(response, prm, now,
                          Str(IF category = "rate" THEN <<"rate_limit_retry">>
                              ELSE <<"service_retry">>))]
    ELSE IF category = "rate" THEN errorFromServiceTest(prm, ctx)
    ELSE [pc |-> "done", sleep |-> <<>>, outcome |-> Unrecoverable(prm)]

\* params of the sailpointDomain build
DomainParamsInputs ==
    {Obj((Key("identityId") :> a) @@ (Key("itemType") :> b)
         @@ (Key("itemId") :> i) @@ (Key("sailpointDomain") :> c)
         @@ (Key("itemComment") :> d) @@ (Key("itemClientMetadata") :> e)) :
        a \in {Undefined, Str(<<"identity-a">>)},
        b \in {Undefined, Str(<<"ROLE">>), Str(<<"INVALID_TYPE">>)},
        i \in {Str(<<>>), Str(<<"item-a">>)},
        c \in {Undefined, Str(<<"tenant", ".", "identitynow", ".", "com">>)},
        d \in {Undefined, Str(<<"no longer needed">>)},
        e \in {Undefined, Str(<<"not json">>)} \cup {Str(t) : t \in KnownJSONTexts}}

DomainContextInputs ==
    {Obj((Key("secrets") :> Obj(Key("SAILPOINT_API_TOKEN") :> a))
         @@ (Key("environment") :>
                Obj((Key("RATE_LIMIT_BACKOFF_MS") :> b)
                    @@ (Key("SERVICE_ERROR_BACKOFF_MS") :> c)))) :
        a \in {Undefined, Str(<<"api-token">>)},
        b \in {Undefined, Str(<<"1", "0", "0">>)},
        c \in {Undefined, Str(<<"5", "0">>), Str(<<"soon">>)}}

\* the answers to the POST of invoke
DomainResponses ==
    {Response(TRUE, 202, <<"Accepted">>, JSONBody(Obj(Key("id") :> id))) : id \in RequestIds}
    \cup
    {Response(FALSE, 429, <<"Too Many Requests">>,
              JSONBody(Obj(Key("message") :> Str(<<"Rate limit exceeded">>)))),
     Response(FALSE, 429, <<"Too Many Requests">>, TextBody(<<>>, TRUE)),
     Response(FALSE, 400, <<"Bad Request">>,
              JSONBody(Obj(Key("message") :> Str(<<"tenant ", "rate limit", " reached">>)))),
     Response(FALSE, 400, <<"Bad Request">>,
              JSONBody(Obj((Key("detailCode") :> Str(<<"4", "0", "0", ".", "1">>))
                           @@ (Key("trackingId") :> Str(<<"t", "4", "2", "9", "1">>))))),
     Response(FALSE, 400, <<"Bad Request">>,
              JSONBody(Obj(Key("detailCode") :> Str(<<"4", "0", "0", ".", "1">>)))),
     Response(FALSE, 401, <<"Unauthorized">>,
              JSONBody(Obj(Key("message") :> Str(<<"token expired">>)))),
     Response(FALSE, 500, <<"Internal Server Error">>, TextBody(<<"oops">>, TRUE)),
     Response(FALSE, 502, <<"Bad Gateway">>, TextBody(<<"<html>">>, TRUE)),
     Response(FALSE, 503, <<"Service Unavailable">>,
              JSONBody(Obj(Key("message") :> Str(<<"rate limit", " of the gateway">>)))),
     Response(FALSE, 503, <<"Service Unavailable">>, TextBody(<<>>, FALSE)),
     Response(FALSE, 504, <<"Gateway Timeout">>, JSONBody(Obj(EmptyObject)))}

\* the answers to a retry POST
RetryResponses ==
    {Response(TRUE, 202, <<"Accepted">>, JSONBody(Obj(Key("id") :> id))) : id \in RequestIds}
    \cup
    {Response(TRUE, 200, <<"OK">>,
              JSONBody(Obj((Key("id") :> Str(<<"request-">> \o NumToStr(1)))
                           @@ (Key("status") :> Str(<<"APPROVED">>))))),
     Response(TRUE, 200, <<"OK">>, TextBody(<<"<html>">>, FALSE)),
     Response(FALSE, 429, <<"Too Many Requests">>,
              JSONBody(Obj(Key("message") :> Str(<<"Rate limit exceeded">>)))),
     Response(FALSE, 503, <<"Service Unavailable">>, TextBody(<<>>, FALSE))}

RetryInit ==
    /\ params \in DomainParamsInputs
    /\ context \in DomainContextInputs
    /\ pc = "start"
    /\ resolvedParams = Undefined
    /\ templateErrors = <<>>
    /\ baseUrl = Undefined
    /\ authHeader = Undefined
    /\ requests = <<>>
    /\ responses = <<>>
    /\ options = DefaultOptions
    /\ timers = <<>>
    /\ outcome = NoOutcome

\* the harness calls invoke: it runs to its POST, or throws
InvokeDomain ==
    /\ pc = "start"
    /\ \E step \in {invokeDomain(params, context)} :
          /\ requests' = requests \o step.sent
          /\ outcome' = step.outcome
          /\ pc' = step.pc
    /\ UNCHANGED <<params, context, options, resolvedParams, templateErrors, baseUrl, authHeader,
                   responses, timers>>

\* the POST of invoke is answered, or the fetch fails: invoke returns or throws
DomainPostResponse ==
    /\ pc = "awaitPost"
    /\ \E response \in DomainResponses \cup {NetworkError}, now \in Dates :
       \E out \in {IF response = NetworkError
                   THEN Thrown("TypeError", <<"fetch failed">>, Undefined)
                   ELSE invokeDomainFromResponse(response, params, now)} :
          /\ responses' = Append(responses, response)
          /\ outcome' = out
          /\ pc' = IF out.kind = "error" THEN "failed" ELSE "done"
    /\ UNCHANGED <<params, context, options, resolvedParams, templateErrors, baseUrl, authHeader,
                   requests, timers>>

\* invoke threw: the harness calls the error handler with the original params plus the
\* error; the handler runs to its first sleep, or throws
ErrorRetrying ==
    /\ pc = "failed"
    /\ \E prm \in {Obj((Key("error") :> ErrorObject(outcome.name, outcome.message,
                                                    outcome.statusCode))
                       @@ params.o)} :
       \E step \in {errorRetrying(prm, context)} :
          /\ params' = prm
          /\ timers' = timers \o [i \in 1..Len(step.sleep) |->
                                     [delay |-> step.sleep[i], after |-> Len(requests)]]
          /\ outcome' = step.outcome
          /\ pc' = step.pc
    /\ UNCHANGED <<context, options, resolvedParams, templateErrors, baseUrl, authHeader,
                   requests, responses>>

\* the backoff sleep is over: the handler calls revokeAccess again
TimerFires ==
    /\ pc \in {"sleepRate", "sleepService"}
    /\ \E call \in {revokeAccessDomain(params, P(params, "sailpointDomain"),
                                       P(P(context, "secrets"), "SAILPOINT_API_TOKEN"),
                                       IF pc = "sleepRate" THEN "rate_limit_retry"
                                       ELSE "service_retry")} :
          IF call.kind = "throw"
          THEN /\ outcome' = call.error
               /\ pc' = "done"
               /\ UNCHANGED requests
          ELSE /\ requests' = Append(requests, call.request)
               /\ pc' = IF pc = "sleepRate" THEN "awaitRate" ELSE "awaitService"
               /\ UNCHANGED outcome
    /\ UNCHANGED <<params, context, options, resolvedParams, templateErrors, baseUrl, authHeader,
                   responses, timers>>

\* the retry POST is answered, or the fetch fails
RetryResponse ==
    /\ pc \in {"awaitRate", "awaitService"}
    /\ \E response \in RetryResponses \cup {NetworkError}, now \in Dates :
       \E step \in {IF response = NetworkError
                    THEN [pc |-> "done", sleep |-> <<>>,
                          outcome |-> Thrown("TypeError", <<"fetch failed">>, Undefined)]
                    ELSE errorFromRetryResponse(response, params, context, now,
                             IF pc = "awaitRate" THEN "rate" ELSE "service")} :
          /\ responses' = Append(responses, response)
          /\ timers' = timers \o [i \in 1..Len(step.sleep) |->
                                     [delay |-> step.sleep[i], after |-> Len(requests)]]
          /\ outcome' = step.outcome
          /\ pc' = step.pc
    /\ UNCHANGED <<params, context, options, resolvedParams, templateErrors, baseUrl, authHeader,
                   requests>>

RetryNext == InvokeDomain \/ DomainPostResponse \/ ErrorRetrying \/ TimerFires \/ RetryResponse

RetrySpec == RetryInit /\ [][RetryNext]_vars

---------------------------------------------------------------------------
(* Vocabulary of the properties of the retrying error handler *)

\* the error handler has been called: params carries the error
HandlerCalled == <<"error">> \in DOMAIN params.o

IncomingError == params.o[<<"error">>]

IncomingMessage == IncomingError.o[<<"message">>].s

IncomingStatus == IncomingError.o[<<"statusCode">>]

\* status 429, or a message holding '429' or 'rate limit'
RateLimitError ==
    \/ IncomingStatus = Num(429)
    \/ \E i \in 1..Len(IncomingMessage) :
          \/ IncomingMessage[i] = "rate limit"
          \/ /\ i + 2 <= Len(IncomingMessage)
             /\ <<IncomingMessage[i], IncomingMessage[i + 1], IncomingMessage[i + 2]>>
                = <<"4", "2", "9">>

\* status 502, 503 or 504
ServiceUnavailableError ==
    IncomingStatus.t = "number" /\ IncomingStatus.n \in {502, 503, 504}

\* the retry POSTs of a category, and the place of the first among the requests
RetryPosts(site) == SelectSeq(requests, LAMBDA r : r.site = site)

RetryIndex(site) == CHOOSE i \in 1..Len(requests) : requests[i].site = site

RetryAnswered(site) == Len(RetryPosts(site)) >= 1 /\ Len(responses) >= RetryIndex(site)

RetryAnswer(site) == responses[RetryIndex(site)]

\* the retry was answered with an ok response whose body is a JSON object
RetryAnsweredOk(site) ==
    /\ RetryAnswered(site)
    /\ RetryAnswer(site) # NetworkError
    /\ RetryAnswer(site).ok
    /\ RetryAnswer(site).body.json
    /\ RetryAnswer(site).body.value.t = "object"

RetryAnsweredNotOk(site) ==
    /\ RetryAnswered(site)
    /\ RetryAnswer(site) # NetworkError
    /\ ~RetryAnswer(site).ok

\* a sleep of the configured delay (the default when the variable is unset; the number
\* when it is all digits) was started before the retry POST of the category, and that
\* POST, once sent, is the only one of its category
SleptThenRetried(name, default, site, sleeping) ==
    LET configured == P(P(context, "environment"), name)
    IN  \E i \in 1..Len(timers) :
           /\ (configured = Undefined => timers[i].delay = Num(default))
           /\ (IsSet(configured) /\ (\A k \in 1..Len(configured.s) : configured.s[k] \in Digits)
                  => timers[i].delay = Num(StrToNum(configured.s)))
           /\ \A j \in 1..Len(requests) : requests[j].site = site => j > timers[i].after
           /\ (pc # sleeping
                  => /\ Len(RetryPosts(site)) = 1
                     /\ RetryIndex(site) = timers[i].after + 1)

\* the handler returned the result of the retry of the category
RecoveredBy(site) ==
    /\ outcome.kind = "result"
    /\ outcome.value.requestId = P(RetryAnswer(site).body.value, "id")
    /\ outcome.value.recoveryMethod = Str(<<site>>)

\* the handler threw the unrecoverable error naming the identity and the original message
ThrewUnrecoverable ==
    /\ pc = "done"
    /\ outcome.kind = "error"
    /\ outcome.message
       = <<"Unrecoverable error creating revoke access request for identity ">>
         \o (IF params.o[<<"identityId">>] = Undefined THEN <<"undefined">>
             ELSE params.o[<<"identityId">>].s)
         \o <<": ">> \o IncomingMessage

---------------------------------------------------------------------------
(* C14 *)

\* C14 as stated: in the retrying error handler an error with status 429 or a
\* rate-limit message leads to a sleep of the rate-limit backoff
\* (RATE_LIMIT_BACKOFF_MS, default 30000) followed by one retry POST, and an error
\* with status 502, 503 or 504 leads to a sleep of the service-error backoff
\* (SERVICE_ERROR_BACKOFF_MS, default 10000) followed by one retry POST; a retry
\* answered ok makes the handler return the response's id with recoveryMethod
\* 'rate_limit_retry' or 'service_retry'; the sleep precedes the retry POST.
C14_EachCategoryRetried ==
    HandlerCalled
        => /\ (RateLimitError
                  => /\ SleptThenRetried("RATE_LIMIT_BACKOFF_MS", 30000,
                                         "rate_limit_retry", "sleepRate")
                     /\ (RetryAnsweredOk("rate_limit_retry") => RecoveredBy("rate_limit_retry")))
           /\ (ServiceUnavailableError /\ pc = "done"
                  => /\ SleptThenRetried("SERVICE_ERROR_BACKOFF_MS", 10000,
                                         "service_retry", "sleepService")
                     /\ (RetryAnsweredOk("service_retry") => RecoveredBy("service_retry")))

\* C14 amended: an error with status 429 or a rate-limit message leads to a sleep of
\* the rate-limit backoff followed by one retry POST; an error with status 502, 503 or
\* 504 leads to a sleep of the service-error backoff followed by one retry POST,
\* unless it is also a rate-limit error, in which case the service sleep and retry
\* happen only after the rate-limit retry was answered non-ok; a retry answered ok
\* (with a JSON object) makes the handler return the response's id with recoveryMethod
\* 'rate_limit_retry' or 'service_retry'; each sleep precedes its retry POST.
C14_RateLimitRetriedFirst ==
    HandlerCalled
        => /\ (RateLimitError
                  => /\ SleptThenRetried("RATE_LIMIT_BACKOFF_MS", 30000,
                                         "rate_limit_retry", "sleepRate")
                     /\ (RetryAnsweredOk("rate_limit_retry")
                            => pc = "done" /\ RecoveredBy("rate_limit_retry")))
           /\ ((/\ ServiceUnavailableError
                /\ (RateLimitError => RetryAnsweredNotOk("rate_limit_retry")))
                  => /\ SleptThenRetried("SERVICE_ERROR_BACKOFF_MS", 10000,
                                         "service_retry", "sleepService")
                     /\ (RetryAnsweredOk("service_retry")
                            => pc = "done" /\ RecoveredBy("service_retry")))
           /\ ((/\ ServiceUnavailableError
                /\ RateLimitError
                /\ ~RetryAnsweredNotOk("rate_limit_retry"))
                  => RetryPosts("service_retry") = <<>>)

\* a 429 answered by invoke, a sleep of the configured 100 ms, and a retry answered 202
C14_Witness ==
    /\ pc = "done"
    /\ HandlerCalled
    /\ IncomingStatus = Num(429)
    /\ timers = <<[delay |-> Num(100), after |-> 1]>>
    /\ Len(requests) = 2
    /\ requests[2].site = "rate_limit_retry"
    /\ responses[2].status = 202
    /\ outcome.kind = "result"
    /\ outcome.value.recoveryMethod = Str(<<"rate_limit_retry">>)
    /\ outcome.value.requestId = Str(<<"request-", "2">>)

---------------------------------------------------------------------------
(* C15 *)

\* the messages of the input checks of invoke
ValidationMessages ==
    {<<"Invalid or missing identityId parameter">>,
     <<"Invalid or missing itemType parameter">>,
     <<"itemType must be ACCESS_PROFILE, ROLE, or ENTITLEMENT">>,
     <<"Invalid or missing itemId parameter">>,
     <<"Invalid or missing sailpointDomain parameter">>,
     <<"Missing required secret: SAILPOINT_API_TOKEN">>,
     <<"itemComment is required for revoke access requests">>}

\* C15: in the retrying error handler an error that is neither a rate-limit error
\* (status 429, or a message holding '429' or 'rate limit') nor a 502/503/504 error is
\* never retried: the handler issues no POST and no sleep and throws 'Unrecoverable
\* error creating revoke access request for identity <identityId>: <original
\* message>'; every input-validation and missing-secret error of invoke is such an error.
C15_OtherErrorsNotRetried ==
    HandlerCalled
        => /\ (~RateLimitError /\ ~ServiceUnavailableError
                  => /\ ThrewUnrecoverable
                     /\ timers = <<>>
                     /\ RetryPosts("rate_limit_retry") = <<>>
                     /\ RetryPosts("service_retry") = <<>>)
           /\ (IncomingMessage \in ValidationMessages
                  => /\ ~RateLimitError
                     /\ ~ServiceUnavailableError
                     /\ requests = <<>>)

\* the missing-secret error of invoke went to the handler and came back unrecoverable
C15_Witness ==
    /\ HandlerCalled
    /\ IncomingMessage = <<"Missing required secret: SAILPOINT_API_TOKEN">>
    /\ ThrewUnrecoverable
    /\ outcome.message
       = <<"Unrecoverable error creating revoke access request for identity ",
           "identity-a", ": ", "Missing required secret: SAILPOINT_API_TOKEN">>
    /\ requests = <<>>
    /\ timers = <<>>

---------------------------------------------------------------------------
(* C16 *)

SomeRetryNotOk ==
    RetryAnsweredNotOk("rate_limit_retry") \/ RetryAnsweredNotOk("service_retry")

---------------------------------------------------------------------------
(* C13 *)

---------------------------------------------------------------------------
(* C17 *)

HaltDone == pc = "done" /\ outcome.kind = "result"

\* C17 as stated: halt returns cleanupCompleted true for every params object; a
\* missing identityId, itemType or itemId is reported as 'unknown' and a present one
\* is echoed unchanged; halt issues no fetch call.
C17_HaltEchoesPresent ==
    HaltDone
        => /\ outcome.value.cleanupCompleted = TRUE
           /\ requests = <<>>
           /\ \A k \in {"identityId", "itemType", "itemId"} :
                 LET given == params.o[<<k>>]
                     reported == IF k = "identityId" THEN outcome.value.identityId
                                 ELSE IF k = "itemType" THEN outcome.value.itemType
                                 ELSE outcome.value.itemId
                 IN  IF given = Undefined THEN reported = Str(<<"unknown">>)
                     ELSE reported = given

\* C17 amended: halt returns cleanupCompleted true for every params object; an
\* identityId, itemType or itemId that is missing or empty (falsy) is reported as
\* 'unknown' and any other one is echoed unchanged; the reason is passed on as given;
\* halt issues no fetch call and no sleep.
C17_HaltEchoesNonEmpty ==
    HaltDone
        => /\ outcome.value.cleanupCompleted = TRUE
           /\ requests = <<>>
           /\ timers = <<>>
           /\ outcome.value.reason = params.o[<<"reason">>]
           /\ \A k \in {"identityId", "itemType", "itemId"} :
                 LET given == params.o[<<k>>]
                     reported == IF k = "identityId" THEN outcome.value.identityId
                                 ELSE IF k = "itemType" THEN outcome.value.itemType
                                 ELSE outcome.value.itemId
                 IN  IF given = Undefined \/ given = Str(<<>>)
                     THEN reported = Str(<<"unknown">>)
                     ELSE reported = given

\* halt called with no identity, an empty item type and an item id
C17_Witness ==
    /\ HaltDone
    /\ params.o[<<"identityId">>] = Undefined
    /\ params.o[<<"itemType">>] = Str(<<>>)
    /\ params.o[<<"reason">>] = Undefined
    /\ outcome.value.identityId = Str(<<"unknown">>)
    /\ outcome.value.itemType = Str(<<"unknown">>)
    /\ outcome.value.itemId = Str(<<"item-a">>)
    /\ outcome.value.cleanupCompleted

---------------------------------------------------------------------------
(* One call of resolveJSONPathTemplates *)

\* the depth to which the inputs of the resolver nest
MaxTemplateDepth == 2

\* the job context the resolver reads: a user with an e-mail address, an empty name,
\* a numeric age, a list of tags and a null manager
TemplateData ==
    Obj(Key("user") :>
        Obj((Key("email") :> Str(<<"a@b", ".", "com">>))
            @@ (Key("name") :> Str(<<>>))
            @@ (Key("age") :> Num(30))
            @@ (Key("tags") :> Arr(<<Str(<<"x">>), Str(<<"y">>)>>))
            @@ (Key("manager") :> Null)))

\* the same job context bringing its own sgnl.time.now
TemplateDataWithTime ==
    Obj(TemplateData.o
        @@ (Key("sgnl") :>
            Obj(Key("time") :>
                Obj(Key("now") :> Str(<<"2020-01-01T00:00:00", "Z">>)))))

\* the paths the templates name, with what the job contexts above hold there: a
\* value and its string form, an empty string, or nothing (undefined or null)
PathTable ==
    {[path |-> <<"user", ".", "email">>, kind |-> "value", text |-> <<"a@b", ".", "com">>],
     [path |-> <<"user", ".", "age">>, kind |-> "value", text |-> <<"3", "0">>],
     [path |-> <<"user", ".", "tags">>, kind |-> "value",
      text |-> <<"[", "\"", "x", "\"", ",", "\"", "y", "\"", "]">>],
     [path |-> <<"user", ".", "tags", "[", "1", "]">>, kind |-> "value", text |-> <<"y">>],
     [path |-> <<"user", ".", "name">>, kind |-> "empty", text |-> <<>>],
     [path |-> <<"user", ".", "manager">>, kind |-> "missing", text |-> <<>>],
     [path |-> <<"user", ".", "phone">>, kind |-> "missing", text |-> <<>>]}

\* the literal text around a token: none (an exact template) or some
Surroundings ==
    {[pre |-> <<>>, post |-> <<>>], [pre |-> <<"Hello ">>, post |-> <<"!">>]}

TimeToken == TemplateOf(<<"sgnl", ".", "time", ".", "now">>)

UuidToken == TemplateOf(<<"sgnl", ".", "random", ".", "uuid">>)

\* a string using both runtime values
Stamp == TimeToken \o <<" ", "id=">> \o UuidToken

\* a string using the timestamp twice
TwoTimes == TimeToken \o <<"/">> \o TimeToken

EmptyNameTemplate == Str(TemplateOf(<<"user", ".", "name">>))

NoPhoneTemplate == Str(TemplateOf(<<"user", ".", "phone">>))

\* the token {$<text>}
TokenOf(text) == <<"{", "$">> \o text \o <<"}">>

\* a path whose last read throws: caller of the function user.constructor
RaisingPath == <<".", "user", ".", "constructor", ".", "caller">>

\* paths that are not well formed: an open bracket, and $. with nothing after it
MalformedPaths == {<<".", "user", "[">>, <<".">>}

\* paths using the JSONPath operators the resolver does not support
UnsupportedPaths ==
    {[operator |-> "wildcard", text |-> <<".", "user", ".", "tags", "[", "*", "]">>],
     [operator |-> "filter",
      text |-> <<".", "user", ".", "tags", "[", "?", "(", "@", ".", "x", ")", "]">>],
     [operator |-> "descent", text |-> <<".", ".", "user", ".", "email">>],
     [operator |-> "slice",
      text |-> <<".", "user", ".", "tags", "[", "0", ":", "1", "]">>]}

\* the leaves of the inputs: one token alone or inside text, the runtime values,
\* text without a token, the empty string, a number, and tokens whose path throws,
\* is not well formed or uses an unsupported operator
\* tokens naming keys of the sgnl namespace that the injection does not write
TenantToken == TemplateOf(<<"sgnl", ".", "tenant">>)

ZoneToken == TemplateOf(<<"sgnl", ".", "time", ".", "zone">>)

TemplateLeaves ==
    {Str(a.pre \o TemplateOf(e.path) \o a.post) : e \in PathTable, a \in Surroundings}
    \cup {Str(TimeToken), Str(<<"id=">> \o UuidToken), Str(Stamp), Str(TwoTimes),
          Str(<<"plain">>), Str(<<>>), Num(7)}
    \cup {Str(TenantToken), Str(ZoneToken)}
    \cup {Str(TokenOf(RaisingPath))}
    \cup {Str(TokenOf(m)) : m \in MalformedPaths}
    \cup {Str(TokenOf(u.text)) : u \in UnsupportedPaths}

\* one more level around an input: a mapping holding it alone, a mapping holding it
\* beside an entry that resolves to the empty string, and a list holding it before
\* the runtime values and an element that is not found
TemplateWraps(t) ==
    {Obj(Key("only") :> t),
     Obj((Key("a") :> t) @@ (Key("b") :> EmptyNameTemplate)),
     Arr(<<t, Str(Stamp), NoPhoneTemplate>>)}

RECURSIVE TemplateTrees(_)
\* the inputs nesting to depth d
TemplateTrees(d) ==
    IF d = 0 THEN TemplateLeaves
    ELSE TemplateLeaves \cup UNION {TemplateWraps(t) : t \in TemplateTrees(d - 1)}

TemplateInputs == TemplateTrees(MaxTemplateDepth)

\* the job contexts: the user, the user with a time of its own, an empty one, none
\* the job data with a sgnl namespace of the caller: a time, a random identifier and
\* keys the injection knows nothing of
TemplateDataWithSgnl ==
    Obj(TemplateData.o
        @@ (Key("sgnl") :>
            Obj((Key("tenant") :> Str(<<"acme">>))
                @@ (Key("time") :>
                       Obj((Key("now") :> Str(<<"2021-06-01T00:00:00", "Z">>))
                           @@ (Key("zone") :> Str(<<"UTC">>))))
                @@ (Key("random") :> Obj(Key("uuid") :> Str(<<"caller-uuid">>))))))

TemplateContexts ==
    {Obj(Key("data") :> d) :
        d \in {TemplateData, TemplateDataWithTime, TemplateDataWithSgnl, Obj(EmptyObject),
               Undefined}}

OptionsInputs == [omitNoValueForExactTemplates : BOOLEAN, injectSGNLNamespace : BOOLEAN]

TemplateInit ==
    /\ params \in TemplateInputs
    /\ context \in TemplateContexts
    /\ options \in OptionsInputs
    /\ pc = "resolve"
    /\ resolvedParams = Undefined
    /\ templateErrors = <<>>
    /\ baseUrl = Undefined
    /\ authHeader = Undefined
    /\ requests = <<>>
    /\ responses = <<>>
    /\ timers = <<>>
    /\ outcome = NoOutcome

\* resolveJSONPathTemplates(params, context.data, options): its result and its errors
ResolveTemplates ==
    /\ pc = "resolve"
    /\ \E now \in Dates, uuid \in Uuids :
       \E resolved \in {resolveJSONPathTemplatesOptions(params, P(context, "data"),
                                                        options, now, uuid)} :
          /\ resolvedParams' = resolved.result
          /\ templateErrors' = resolved.errors
          /\ pc' = "resolved"
    /\ UNCHANGED <<params, context, options, baseUrl, authHeader, requests, responses,
                   timers, outcome>>

TemplateNext == ResolveTemplates

TemplateSpec == TemplateInit /\ [][TemplateNext]_vars

---------------------------------------------------------------------------
(* Vocabulary of the properties of the resolver *)

Resolved == pc = "resolved"

Omitting == options.omitNoValueForExactTemplates

\* the job context holds the user of PathTable
UserKnown ==
    P(context, "data") \in {TemplateData, TemplateDataWithTime, TemplateDataWithSgnl}

RECURSIVE StringsOf(_)
\* the strings at the leaves of a value
StringsOf(v) ==
    CASE v.t = "string" -> {v.s}
      [] v.t = "array" -> UNION {StringsOf(v.a[i]) : i \in 1..Len(v.a)}
      [] v.t = "object" -> UNION {StringsOf(v.o[k]) : k \in DOMAIN v.o}
      [] OTHER -> {}

\* the strings whose tokens all resolve for the user of PathTable with the runtime
\* values injected
ResolvingStrings ==
    {a.pre \o TemplateOf(e.path) \o a.post :
        e \in {x \in PathTable : x.kind = "value"}, a \in Surroundings}
    \cup {TimeToken, <<"id=">> \o UuidToken, Stamp, TwoTimes, <<"plain">>, <<>>}

\* the placeholder put in place of a token whose path is not found
Placeholder == <<"{", "No Value", "}">>

\* exactly one error was recorded and it names the path
OneErrorNaming(path) ==
    /\ Len(templateErrors) = 1
    /\ Includes(templateErrors[1], <<"$", ".">> \o path)

\* the policy of one token for a string input holding that one token; exception says
\* whether an exact template under the omit option is replaced by the empty string
TokenPolicy(exception) ==
    (Resolved /\ UserKnown)
        => \A e \in PathTable, a \in Surroundings :
              params = Str(a.pre \o TemplateOf(e.path) \o a.post)
                  => LET blank == exception /\ Omitting /\ a.pre = <<>> /\ a.post = <<>>
                     IN  CASE e.kind = "value" ->
                                  /\ resolvedParams = Str(a.pre \o e.text \o a.post)
                                  /\ templateErrors = <<>>
                           [] e.kind = "missing" ->
                                  /\ resolvedParams =
                                         Str(a.pre \o (IF blank THEN <<>> ELSE Placeholder)
                                             \o a.post)
                                  /\ OneErrorNaming(e.path)
                           [] OTHER ->
                                  /\ resolvedParams = Str(a.pre \o a.post)
                                  /\ OneErrorNaming(e.path)

\* an input whose tokens all resolve yields no error
NoErrorWhenAllResolve ==
    (/\ Resolved
     /\ UserKnown
     /\ options.injectSGNLNamespace
     /\ StringsOf(params) \subseteq ResolvingStrings)
        => templateErrors = <<>>

\* the timestamps in a value: each atom followed by the Z that ends a timestamp
TimesIn(v) ==
    UNION {{s[i] : i \in {j \in 1..(Len(s) - 1) : s[j + 1] = "Z"}} : s \in StringsOf(v)}

\* the random identifiers in a value: each atom following id=
UuidsIn(v) ==
    UNION {{s[i + 1] : i \in {j \in 1..(Len(s) - 1) : s[j] = "id="}} : s \in StringsOf(v)}

RECURSIVE NoBlank(_)
\* no mapping of the value has an entry holding the empty string and no list of it
\* has an element that is the empty string, however deep
NoBlank(v) ==
    CASE v.t = "array" ->
             \A i \in 1..Len(v.a) : v.a[i] # Str(<<>>) /\ NoBlank(v.a[i])
      [] v.t = "object" ->
             \A k \in DOMAIN v.o : v.o[k] # Str(<<>>) /\ NoBlank(v.o[k])
      [] OTHER -> TRUE

RECURSIVE SameShape(_, _)
\* the mappings of the result have the keys of the input's and its lists the lengths
\* of the input's, however deep
SameShape(in, out) ==
    CASE in.t = "array" ->
             /\ out.t = "array"
             /\ Len(out.a) = Len(in.a)
             /\ \A i \in 1..Len(in.a) : SameShape(in.a[i], out.a[i])
      [] in.t = "object" ->
             /\ out.t = "object"
             /\ DOMAIN out.o = DOMAIN in.o
             /\ \A k \in DOMAIN in.o : SameShape(in.o[k], out.o[k])
      [] OTHER -> TRUE

---------------------------------------------------------------------------
(* C18 *)

\* C18 as stated: resolving a string that holds one {$.path} token replaces the token
\* by the string form of the value at the path and records no error when the value is
\* not empty, by the placeholder '{No Value}' with one error naming the path when
\* the path leads to undefined or null, and by the empty string with one error when
\* it leads to the empty string; an input whose tokens all resolve yields no error.
C18_TokenPolicy ==
    /\ TokenPolicy(FALSE)
    /\ NoErrorWhenAllResolve

\* C18: resolving a string that holds one {$.path} token replaces the token by the
\* string form of the value at the path (a string as is, a number or a list
\* JSON-encoded) and records no error when the value is not empty; by the placeholder
\* '{No Value}' with one error naming the path when the path leads to undefined or
\* null, except that the token is replaced by the empty string when the omit option
\* is set and the string is that token alone; and by the empty string with one error
\* naming the path when it leads to the empty string.  An input whose tokens all
\* resolve yields no error.
C18_TokenPolicyUnlessOmitted ==
    /\ TokenPolicy(TRUE)
    /\ NoErrorWhenAllResolve

\* a template alone in its string, not found, resolved under the omit option
C18_Witness ==
    /\ Resolved
    /\ UserKnown
    /\ Omitting
    /\ params = NoPhoneTemplate
    /\ resolvedParams = Str(<<>>)
    /\ OneErrorNaming(<<"user", ".", "phone">>)

---------------------------------------------------------------------------
(* C19 *)

\* C19: after one call of resolveJSONPathTemplates that injects the sgnl namespace,
\* no token is left in the result, at most one timestamp and at most one random
\* identifier occur in it wherever the input used {$.sgnl.time.now} and
\* {$.sgnl.random.uuid}, and a string using the timestamp twice holds it twice.
C19_RuntimeValuesComputedOnce ==
    (Resolved /\ options.injectSGNLNamespace)
        => /\ \A s \in StringsOf(resolvedParams) : ~Includes(s, <<"$">>)
           /\ Cardinality(TimesIn(resolvedParams)) <= 1
           /\ Cardinality(UuidsIn(resolvedParams)) <= 1
           /\ (TimeToken \in StringsOf(params) \/ Stamp \in StringsOf(params)
                   => Cardinality(TimesIn(resolvedParams)) = 1)
           /\ (Stamp \in StringsOf(params) => Cardinality(UuidsIn(resolvedParams)) = 1)
           /\ (params = Str(TwoTimes)
                   => \E t \in TimesIn(resolvedParams) :
                         resolvedParams = Str(<<t, "Z", "/", t, "Z">>))

\* a list whose first element uses the timestamp twice and whose second uses both
\* runtime values: one timestamp and one identifier throughout
C19_Witness ==
    /\ Resolved
    /\ options.injectSGNLNamespace
    /\ ~Omitting
    /\ P(context, "data") = TemplateData
    /\ params = Arr(<<Str(TwoTimes), Str(Stamp), NoPhoneTemplate>>)
    /\ resolvedParams.a[1] = Str(<<"2026-11-06T10:00:01", "Z", "/",
                                   "2026-11-06T10:00:01", "Z">>)
    /\ resolvedParams.a[2] = Str(<<"2026-11-06T10:00:01", "Z", " ", "id=", "uuid-b">>)

---------------------------------------------------------------------------
(* C20 *)

\* C20: with the omit option, no mapping of the result has an entry holding the empty
\* string and no list of the result has an element that is the empty string, at
\* every depth; without it, every mapping of the result has the keys of the input's
\* mapping and every list the length of the input's list.
C20_OmitDropsBlanks ==
    Resolved
        => IF Omitting
           THEN NoBlank(resolvedParams)
           ELSE SameShape(params, resolvedParams)

\* under the omit option, a list whose first element is a mapping with an entry
\* resolving to the empty string and whose last element is not found: the entry and
\* the element are gone, what resolves stays
C20_Witness ==
    /\ Resolved
    /\ Omitting
    /\ P(context, "data") = TemplateData
    /\ params = Arr(<<Obj((Key("a") :> Str(TemplateOf(<<"user", ".", "email">>)))
                          @@ (Key("b") :> EmptyNameTemplate)),
                      Str(Stamp), NoPhoneTemplate>>)
    /\ Len(resolvedParams.a) = 2
    /\ resolvedParams.a[1] = Obj(Key("a") :> Str(<<"a@b", ".", "com">>))
    /\ Len(templateErrors) = 2

---------------------------------------------------------------------------
(* C21 *)

RECURSIVE KindKept(_, _)
\* the result has the kind of the input: a string for a string, a mapping for a
\* mapping with no key the input lacks, a list for a list with every element of the
\* kind of an element of the input (in place when nothing is omitted), however deep
KindKept(in, out) ==
    /\ out.t = in.t
    /\ CASE in.t = "object" ->
                /\ DOMAIN out.o \subseteq DOMAIN in.o
                /\ \A k \in DOMAIN out.o : KindKept(in.o[k], out.o[k])
         [] in.t = "array" ->
                /\ Len(out.a) <= Len(in.a)
                /\ \A i \in 1..Len(out.a) :
                      IF Len(out.a) = Len(in.a) THEN KindKept(in.a[i], out.a[i])
                      ELSE \E j \in 1..Len(in.a) : KindKept(in.a[j], out.a[i])
         [] OTHER -> TRUE

\* every error recorded is a text
ErrorsAreTexts ==
    \A i \in 1..Len(templateErrors) :
        StartsWith(templateErrors[i], <<"failed to extract field ">>)

\* C21: the resolver has a result for every input, whatever the path text of its
\* tokens, for every clock reading and random identifier; the result has the shape
\* of the input (a string for a string, a mapping for a mapping, a list for a list,
\* at every depth) and comes with the list of the errors recorded; a token whose
\* path throws while it is read is answered like a path that is not found, with the
\* placeholder and one error, and nothing is thrown to the caller.
C21_ResolverNeverRaises ==
    /\ pc = "resolve"
           => \A now \in Dates, uuid \in Uuids :
                 KindKept(params,
                          resolveJSONPathTemplatesOptions(params, P(context, "data"),
                                                          options, now, uuid).result)
    /\ Resolved
           => /\ outcome = NoOutcome
              /\ KindKept(params, resolvedParams)
              /\ ErrorsAreTexts
              /\ (params = Str(TokenOf(RaisingPath)) /\ UserKnown
                     => /\ resolvedParams = Str(IF Omitting THEN <<>> ELSE Placeholder)
                        /\ Len(templateErrors) = 1
                        /\ Includes(templateErrors[1], <<"$">> \o RaisingPath))

\* a list whose first element is a token whose path throws: the placeholder there,
\* and the errors of that token and of the last element, in that order
C21_Witness ==
    /\ Resolved
    /\ ~Omitting
    /\ P(context, "data") = TemplateData
    /\ params = Arr(<<Str(TokenOf(RaisingPath)), Str(Stamp), NoPhoneTemplate>>)
    /\ resolvedParams.a[1] = Str(Placeholder)
    /\ resolvedParams.a[3] = Str(Placeholder)
    /\ Len(templateErrors) = 2
    /\ Includes(templateErrors[1], <<"constructor", ".", "caller">>)
    /\ Includes(templateErrors[2], <<"user", ".", "phone">>)

---------------------------------------------------------------------------
(* C22 *)

\* C22 as stated: a string that is one token whose path uses the wildcard, a filter,
\* the recursive descent or a slice resolves, for every job context, to the
\* placeholder (to the empty string under the omit option) with one error recorded,
\* never to a value of the context.
C22_UnsupportedOperatorsFail ==
    Resolved
        => \A u \in UnsupportedPaths :
              params = Str(TokenOf(u.text))
                  => /\ resolvedParams = Str(IF Omitting THEN <<>> ELSE Placeholder)
                     /\ Len(templateErrors) = 1

---------------------------------------------------------------------------
(* C23 *)

\* the body of the access-requests POST, as the JSON document sent
PostBody == requests[PostIndex].body

\* the one requested item of the body
PostItem == PostBody.o[<<"requestedItems">>].a[1]

\* what JSON.stringify leaves of a param in the body: nothing of undefined inside a
\* mapping, null inside a list
InArray(v) == IF v = Undefined THEN Null ELSE v

\* the body names the identity, the request type and one item with its type, id and
\* comment, and the item carries the remove date when a date is given
BodyCore ==
    /\ DOMAIN PostBody.o \subseteq
           {<<"requestedFor">>, <<"requestType">>, <<"requestedItems">>, <<"clientMetadata">>}
    /\ PostBody.o[<<"requestedFor">>] = Arr(<<InArray(P(resolvedParams, "identityId"))>>)
    /\ PostBody.o[<<"requestType">>] = Str(<<"REVOKE_ACCESS">>)
    /\ Len(PostBody.o[<<"requestedItems">>].a) = 1
    /\ P(PostItem, "type") = P(resolvedParams, "itemType")
    /\ P(PostItem, "id") = P(resolvedParams, "itemId")
    /\ P(PostItem, "comment") = P(resolvedParams, "itemComment")
    /\ (P(resolvedParams, "itemRemoveDate") = Str(<<"2", "0", "2", "6", "-01-01">>)
           => P(PostItem, "removeDate") = Str(<<"2026-01-01T00:00:00", ".", "0", "0", "0", "Z">>))
    /\ (P(resolvedParams, "itemRemoveDate") \in {Undefined, Str(<<"tomorrow">>)}
           => <<"removeDate">> \notin DOMAIN PostItem.o)

\* C23 as stated: the body of every access-requests POST has requestedFor
\* [identityId], requestType 'REVOKE_ACCESS' and one requested item with type, id
\* and comment; the item carries removeDate when a valid itemRemoveDate is given and
\* clientMetadata when itemClientMetadata is given, and the request carries
\* clientMetadata when clientMetadata is given.
C23_PostBody ==
    Len(Posts) >= 1
        => /\ BodyCore
           /\ (IsSet(P(resolvedParams, "itemClientMetadata"))
                  => P(PostItem, "clientMetadata") = P(resolvedParams, "itemClientMetadata"))
           /\ (IsSet(P(resolvedParams, "clientMetadata"))
                  => P(PostBody, "clientMetadata") = P(resolvedParams, "clientMetadata"))

---------------------------------------------------------------------------
(* C24 *)

\* the base address: params.address if set, else environment ADDRESS
GivenAddress ==
    IF IsSet(P(resolvedParams, "address")) THEN P(resolvedParams, "address").s
    ELSE Env("ADDRESS").s

\* the base address with a trailing slash stripped
StrippedAddress ==
    IF GivenAddress[Len(GivenAddress)] = "/"
    THEN SubSeq(GivenAddress, 1, Len(GivenAddress) - 1)
    ELSE GivenAddress

\* C24 as stated: every access-requests POST goes to the base address (params.address
\* if set, else environment ADDRESS, a trailing slash stripped) followed by
\* '/v3/access-requests', also when the base address has a path, and the address of
\* the result is that base address.
C24_PostURL ==
    /\ Len(Posts) >= 1
           => requests[PostIndex].url
                  = StrippedAddress \o <<"/", "v", "3", "/", "access-requests">>
    /\ Returned => outcome.value.address = StrippedAddress

---------------------------------------------------------------------------
(* Concurrent calls of the handlers of src/script.mjs *)

\* the calls in progress: an invoke and, beside it, a call of any of the handlers.
\* In the specification of the concurrent calls every variable holds, for each call,
\* what it holds for the one call of the other specifications.
Calls == {"first", "second"}

\* a handler reading the argument the first call was given
FirstArgument(call, given) == given["first"]

\* what a handler reads of the arguments the calls were given: its own params and
\* context (script.mjs:98, 181, 193); the module keeps nothing between calls
OwnArgument(call, given) == given[call]

ConcurrentInvokeParams ==
    {Obj((Key("identityId") :> id) @@ (Key("itemType") :> type)
         @@ (Key("itemId") :> Str(<<"item-a">>))
         @@ (Key("itemComment") :> Str(<<"no longer needed">>))) :
        id \in {Str(<<"identity-a">>), Str(TemplateOf(<<"user", ".", "id">>))},
        type \in {Str(<<"ROLE">>), Str(<<"INVALID_TYPE">>)}}

ErrorCallParams ==
    {Obj((Key("identityId") :> Str(<<"identity-a">>)) @@ (Key("error") :> e)) :
        e \in {ErrorObject("Error", MsgItemType, Undefined),
               ErrorObject("Error", MsgFailed \o <<"HTTP ">> \o NumToStr(503), Num(503))}}

HaltCallParams ==
    {Obj((Key("identityId") :> id) @@ (Key("reason") :> Str(<<"timeout">>))) :
        id \in {Undefined, Str(<<"identity-a">>)}}

\* a context per way of authorizing: a bearer token, a user and a password, and the
\* client-credentials flow, each with an address of its own
ConcurrentContexts ==
    {Obj((Key("environment") :>
             Obj(Key("ADDRESS") :> Str(<<"https:", "/", "/", "one", ".", "api">>)))
         @@ (Key("secrets") :>
                Obj(Key("BEARER_AUTH_TOKEN") :> Str(<<"Bearer ", "static-token">>)))
         @@ (Key("data") :> JobData)),
     Obj((Key("environment") :>
             Obj(Key("ADDRESS") :> Str(<<"https:", "/", "/", "two", ".", "api">>)))
         @@ (Key("secrets") :>
                Obj((Key("BASIC_USERNAME") :> Str(<<"user">>))
                    @@ (Key("BASIC_PASSWORD") :> Str(<<"password">>))))
         @@ (Key("data") :> JobData)),
     Obj((Key("environment") :>
             Obj((Key("ADDRESS") :> Str(<<"https:", "/", "/", "three", ".", "api">>))
                 @@ (Key("OAUTH2_CLIENT_CREDENTIALS_TOKEN_URL") :>
                        Str(<<"https:", "/", "/", "idp", "/", "token">>))
                 @@ (Key("OAUTH2_CLIENT_CREDENTIALS_CLIENT_ID") :> Str(<<"client-id">>))))
         @@ (Key("secrets") :>
                Obj(Key("OAUTH2_CLIENT_CREDENTIALS_CLIENT_SECRET") :>
                        Str(<<"client-secret">>)))
         @@ (Key("data") :> JobData))}

ConcurrentTokenResponses ==
    {Response(TRUE, 200, <<"OK">>, JSONBody(Obj(Key("access_token") :> Str(<<"fresh-token">>)))),
     Response(FALSE, 401, <<"Unauthorized">>,
              JSONBody(Obj(Key("error") :> Str(<<"invalid_client">>))))}

ConcurrentPostResponses ==
    {Response(TRUE, 202, <<"Accepted">>, JSONBody(Obj(Key("id") :> id))) : id \in RequestIds}
    \cup {Response(FALSE, 429, <<"Too Many Requests">>,
                   JSONBody(Obj(Key("message") :> Str(<<"rate limit">>)))),
          NetworkError}

\* the same value for every call
ForEachCall(v) == [c \in Calls |-> v]

ConcurrentInit ==
    /\ pc \in {[c \in Calls |-> IF c = "first" THEN "start" ELSE k] :
                  k \in {"start", "error", "halt"}}
    /\ params \in [Calls -> ConcurrentInvokeParams \cup ErrorCallParams \cup HaltCallParams]
    /\ \A c \in Calls :
          /\ pc[c] = "start" <=> params[c] \in ConcurrentInvokeParams
          /\ pc[c] = "error" <=> params[c] \in ErrorCallParams
    /\ context \in [Calls -> ConcurrentContexts]
    /\ resolvedParams = ForEachCall(Undefined)
    /\ templateErrors = ForEachCall(<<>>)
    /\ baseUrl = ForEachCall(Undefined)
    /\ authHeader = ForEachCall(Undefined)
    /\ requests = ForEachCall(<<>>)
    /\ responses = ForEachCall(<<>>)
    /\ options = DefaultOptions
    /\ timers = <<>>
    /\ outcome = ForEachCall(NoOutcome)

\* what invoke throws or returns once the access-requests endpoint has answered
PostOutcome(response, prm, base, now) ==
    IF response = NetworkError
    THEN Thrown("TypeError", <<"fetch failed">>, Undefined)
    ELSE InvokeFromResponse(response, prm, base, now)

\* invoke of one call up to its first await, or to its end when it throws before
CallInvoke(c) ==
    /\ pc[c] = "start"
    /\ \E now \in Dates, uuid \in Uuids :
       \E resolved \in {resolveJSONPathTemplates(OwnArgument(c, params),
                                                 P(OwnArgument(c, context), "data"),
                                                 now, uuid)} :
       \E step \in {InvokeResolved(resolved.result, OwnArgument(c, context))} :
          /\ resolvedParams' = [resolvedParams EXCEPT ![c] = resolved.result]
          /\ templateErrors' = [templateErrors EXCEPT ![c] = resolved.errors]
          /\ baseUrl' = [baseUrl EXCEPT ![c] = step.baseUrl]
          /\ authHeader' = [authHeader EXCEPT ![c] = step.authHeader]
          /\ requests' = [requests EXCEPT ![c] = @ \o step.sent]
          /\ outcome' = [outcome EXCEPT ![c] = step.outcome]
          /\ pc' = [pc EXCEPT ![c] = step.pc]
    /\ UNCHANGED <<params, context, options, responses, timers>>

\* the token endpoint answers one call, or its fetch fails
CallTokenResponse(c) ==
    /\ pc[c] = "awaitToken"
    /\ \E response \in ConcurrentTokenResponses \cup {NetworkError} :
       \E step \in {InvokeFromToken(response, resolvedParams[c], baseUrl[c].s)} :
          /\ responses' = [responses EXCEPT ![c] = Append(@, response)]
          /\ authHeader' = [authHeader EXCEPT ![c] = step.authHeader]
          /\ requests' = [requests EXCEPT ![c] = @ \o step.sent]
          /\ outcome' = [outcome EXCEPT ![c] = step.outcome]
          /\ pc' = [pc EXCEPT ![c] = step.pc]
    /\ UNCHANGED <<params, context, options, resolvedParams, templateErrors, baseUrl, timers>>

\* the access-requests endpoint answers one call, or its fetch fails
CallPostResponse(c) ==
    /\ pc[c] = "awaitPost"
    /\ \E response \in ConcurrentPostResponses, now \in Dates :
          /\ responses' = [responses EXCEPT ![c] = Append(@, response)]
          /\ outcome' = [outcome EXCEPT
                            ![c] = PostOutcome(response, resolvedParams[c], baseUrl[c].s, now)]
    /\ pc' = [pc EXCEPT ![c] = "done"]
    /\ UNCHANGED <<params, context, options, resolvedParams, templateErrors, baseUrl, authHeader,
                   requests, timers>>

\* the error handler of one call
CallError(c) ==
    /\ pc[c] = "error"
    /\ outcome' = [outcome EXCEPT ![c] = error(OwnArgument(c, params))]
    /\ pc' = [pc EXCEPT ![c] = "done"]
    /\ UNCHANGED <<params, context, options, resolvedParams, templateErrors, baseUrl, authHeader,
                   requests, responses, timers>>

\* the halt handler of one call
CallHalt(c) ==
    /\ pc[c] = "halt"
    /\ \E now \in Dates : outcome' = [outcome EXCEPT ![c] = halt(OwnArgument(c, params), now)]
    /\ pc' = [pc EXCEPT ![c] = "done"]
    /\ UNCHANGED <<params, context, options, resolvedParams, templateErrors, baseUrl, authHeader,
                   requests, responses, timers>>

\* the calls interleave at their awaits: between two awaits a handler runs alone
ConcurrentNext ==
    \E c \in Calls :
        \/ CallInvoke(c)
        \/ CallTokenResponse(c)
        \/ CallPostResponse(c)
        \/ CallError(c)
        \/ CallHalt(c)

ConcurrentSpec == ConcurrentInit /\ [][ConcurrentNext]_vars

---------------------------------------------------------------------------
(* C25: concurrent calls share nothing *)

\* what one call has sent and settled when it runs with no other call beside it: invoke
\* on its own params and context, given the answers rsp its fetches got so far
InvokeAlone(prm, ctx, rsp, now, uuid, at) ==
    LET resolved == resolveJSONPathTemplates(prm, P(ctx, "data"), now, uuid).result
        start == InvokeResolved(resolved, ctx)
        token == InvokeFromToken(rsp[1], resolved, start.baseUrl.s)
        Settled(answer) == [pc |-> "done", requests |-> start.sent,
                            outcome |-> PostOutcome(answer, resolved, start.baseUrl.s, at)]
    IN  IF start.pc = "done" \/ rsp = <<>>
        THEN [pc |-> start.pc, requests |-> start.sent, outcome |-> start.outcome]
        ELSE IF start.pc = "awaitPost"
        THEN Settled(rsp[1])
        ELSE IF token.pc = "done" \/ Len(rsp) = 1
        THEN [pc |-> token.pc, requests |-> start.sent \o token.sent, outcome |-> token.outcome]
        ELSE [pc |-> "done", requests |-> start.sent \o token.sent,
              outcome |-> PostOutcome(rsp[2], resolved, start.baseUrl.s, at)]

\* the same for a call of the error handler or of the halt handler
HandlerAlone(prm, at) ==
    [pc |-> "done", requests |-> <<>>,
     outcome |-> IF prm \in ErrorCallParams THEN error(prm) ELSE halt(prm, at)]

\* call c stands where it would stand had it run alone
AsAlone(c) ==
    \/ pc[c] \in {"start", "error", "halt"} /\ requests[c] = <<>> /\ outcome[c] = NoOutcome
    \/ \E now \in Dates, uuid \in Uuids, at \in Dates :
       \E alone \in {IF params[c] \in ConcurrentInvokeParams
                     THEN InvokeAlone(params[c], context[c], responses[c], now, uuid, at)
                     ELSE HandlerAlone(params[c], at)} :
          /\ pc[c] = alone.pc
          /\ requests[c] = alone.requests
          /\ outcome[c] = alone.outcome

\* what the model keeps of one call
CallState(c) ==
    <<pc[c], resolvedParams[c], templateErrors[c], baseUrl[c], authHeader[c], requests[c],
      responses[c], outcome[c]>>

---------------------------------------------------------------------------
(* C26: a template that cannot be resolved does not stop invoke *)

\* the params hold, in this field, a template naming a field the job data lacks
Unresolvable(field) == P(params, field) = MissingTemplate

UnresolvableFields == {f \in {"identityId", "itemId", "itemComment"} : Unresolvable(f)}

\* the checks invoke makes before the POST pass without a call of the token endpoint
ChecksPassDirectly ==
    /\ IsItemType(P(resolvedParams, "itemType"))
    /\ getBaseURL(resolvedParams, context).kind # "throw"
    /\ getAuthorizationHeader(context).kind \notin {"throw", "fetch"}

\* C26: a template of identityId, itemId or itemComment that cannot be resolved is not
\* raised by invoke: the failure is kept in the errors of the resolver, the field holds
\* the placeholder, invoke goes on to its checks, and the POST it sends when they pass
\* carries the placeholder in that field; no error invoke ends with is the
\* resolver's.
C26_TemplateFailureNotFatal ==
    (pc # "start" /\ UnresolvableFields # {})
        => /\ Len(templateErrors) = Cardinality(UnresolvableFields)
           /\ \A f \in UnresolvableFields :
                 P(resolvedParams, f) = Str(NO_VALUE_PLACEHOLDER)
           /\ outcome.kind = "error"
                 => /\ ~Includes(outcome.message, <<"failed to extract field ">>)
                    /\ ~Includes(outcome.message, <<"Template">>)
                    /\ \/ responses # <<>>
                       \/ outcome.message \in {MsgNoAuth, MsgTokenConfig, MsgTokenEnv}
           /\ ChecksPassDirectly
                 => /\ Len(Posts) = 1
                    /\ Unresolvable("identityId")
                          => PostBody.o[<<"requestedFor">>] = Arr(<<Str(NO_VALUE_PLACEHOLDER)>>)
                    /\ Unresolvable("itemId") => P(PostItem, "id") = Str(NO_VALUE_PLACEHOLDER)
                    /\ Unresolvable("itemComment")
                          => P(PostItem, "comment") = Str(NO_VALUE_PLACEHOLDER)

\* the three fields hold templates that cannot be resolved and invoke returned the
\* request the POST created
C26_Witness ==
    /\ UnresolvableFields = {"identityId", "itemId", "itemComment"}
    /\ Len(templateErrors) = 3
    /\ Len(Posts) = 1
    /\ P(PostItem, "id") = Str(NO_VALUE_PLACEHOLDER)
    /\ Returned

---------------------------------------------------------------------------
(* C27: the order of the checks of invoke in the sailpointDomain variant *)

\* a param that is absent, empty or no string
Lacks(field) == P(params, field).t # "string" \/ P(params, field).s = <<>>

\* the checks in the order claimed, each with whether it fails and what it says
ClaimedChecks ==
    << [fails |-> Lacks("identityId"),
        says |-> <<"Invalid or missing identityId parameter">>],
       [fails |-> Lacks("itemType"),
        says |-> <<"Invalid or missing itemType parameter">>],
       [fails |-> P(params, "itemType") \notin
                      {Str(<<"ACCESS_PROFILE">>), Str(<<"ROLE">>), Str(<<"ENTITLEMENT">>)},
        says |-> <<"itemType must be ACCESS_PROFILE, ROLE, or ENTITLEMENT">>],
       [fails |-> Lacks("itemId"),
        says |-> <<"Invalid or missing itemId parameter">>],
       [fails |-> Lacks("sailpointDomain"),
        says |-> <<"Invalid or missing sailpointDomain parameter">>],
       [fails |-> P(P(context, "secrets"), "SAILPOINT_API_TOKEN") \in {Undefined, Str(<<>>)},
        says |-> <<"Missing required secret: SAILPOINT_API_TOKEN">>],
       [fails |-> Lacks("itemComment"),
        says |-> <<"itemComment is required for revoke access requests">>] >>

FailingChecks == {i \in DOMAIN ClaimedChecks : ClaimedChecks[i].fails}

FirstFailingCheck == CHOOSE i \in FailingChecks : \A j \in FailingChecks : i <= j

---------------------------------------------------------------------------
(* C28: the POSTs of one call of the retrying error handler *)

\* the POSTs the error handler has sent, of both categories
HandlerPosts == SelectSeq(requests, LAMBDA r : r.site \in {"rate_limit_retry", "service_retry"})

\* C28: one call of the retrying error handler sends at most one POST, whatever the
\* error it is given and whatever the answer to its retry.
C28_AtMostOneHandlerPost == Len(HandlerPosts) <= 1

---------------------------------------------------------------------------
(* C29: invoke of the bundled build *)

\* revokeAccess of the bundled build (part_001:451-500) up to its fetch: the url is
\* the base with the path appended to it, and it is fetch that rejects a url it cannot
\* parse, after the comment has been checked
revokeAccessBundled(prm, base, authToken) ==
    LET url == base \o AccessRequestsPath
        itemComment == P(prm, "itemComment")
        itemRemoveDate == P(prm, "itemRemoveDate")
        item == (<<"type">> :> P(prm, "itemType")) @@ (<<"id">> :> P(prm, "itemId"))
        withComment == (<<"comment">> :> itemComment) @@ item
        withDate ==
            IF /\ Truthy(itemRemoveDate)
               /\ itemRemoveDate.t = "string"
               /\ itemRemoveDate.s \in DOMAIN KnownDates
            THEN (<<"removeDate">> :> Str(toISOString(KnownDates[itemRemoveDate.s])))
                 @@ withComment
            ELSE withComment
        requestBody ==
            Obj((<<"requestedFor">> :> Arr(<<P(prm, "identityId")>>))
                @@ (<<"requestType">> :> Str(<<"REVOKE_ACCESS">>))
                @@ (<<"requestedItems">> :> Arr(<<Obj(withDate)>>)))
    IN  IF ~Truthy(itemComment)
        THEN [kind |-> "throw", error |-> Thrown("Error", MsgCommentRequired, Undefined)]
        ELSE IF ~IsAbsoluteURL(base)
        THEN [kind |-> "throw",
              error |-> Thrown("TypeError", <<"Failed to parse URL from ">> \o url, Undefined)]
        ELSE [kind |-> "fetch",
              request |-> [site |-> "revokeAccess",
                           url |-> url,
                           method |-> "POST",
                           headers |-> JSONHeaders(authToken),
                           body |-> JSONdocument(requestBody)]]

\* invoke of the bundled build from authHeader on (part_001:561-566); up to there and
\* from the response on (part_001:539-559, 568-609) its text is that of script.mjs
InvokeWithHeaderBundled(prm, base, header) ==
    LET call == revokeAccessBundled(prm, base, header)
    IN  IF call.kind = "throw"
        THEN [pc |-> "done", outcome |-> call.error, sent |-> <<>>, authHeader |-> Str(header)]
        ELSE [pc |-> "awaitPost", outcome |-> NoOutcome, sent |-> <<call.request>>,
              authHeader |-> Str(header)]

\* C29: invoke of src/src/script.mjs and invoke of the bundled build send the same
\* requests (url, headers and body, in the same order) and end with the same result or
\* the same error, for every params, context and responses: once the authorization
\* header is there, what invoke sent and threw is what the bundled build sends and
\* throws.
C29_SameAsBundledBuild ==
    authHeader # Undefined
        => \E step \in {InvokeWithHeaderBundled(resolvedParams, baseUrl.s, authHeader.s)} :
              /\ Posts = step.sent
              /\ (step.pc = "done" \/ Len(responses) = Len(TokenCalls))
                     => outcome = step.outcome

---------------------------------------------------------------------------
(* C30: the injection keeps what the caller supplied *)

\* the value the job context of the caller holds at a path of its sgnl namespace
Supplied(path) ==
    Traverse(P(context, "data"), <<Key("sgnl")>> \o [i \in 1..Len(path) |-> Key(path[i])])

SuppliedText(path) ==
    IF Supplied(path).t = "string" THEN Supplied(path).s ELSE <<>>

====
